---- MODULE Spec2Model ----
(***************************************************************************)
(* State-machine model of the governance pallets of                        *)
(* contradots-techconnect-chain:                                           *)
(*   pallets/proposal-router  (propose / vote / execute / cancel)          *)
(*   pallets/member-registry  (clubs and members, the eligibility source)  *)
(* Every dispatchable is one action.  A dispatchable that returns Err      *)
(* leaves storage and the event log untouched (FRAME runs every call in a  *)
(* storage layer, and try_mutate writes back only on Ok).                  *)
(***************************************************************************)
EXTENDS Integers, Sequences, FiniteSets, TLC

VARIABLES
    now,             \* frame_system::Pallet::<T>::block_number()
    NextProposalId,  \* StorageValue NextProposalId
    Proposals,       \* StorageMap ProposalId -> Proposal (OptionQuery)
    ClubProposals,   \* StorageMap ClubId -> BoundedVec<ProposalId, 1024>
    balances,        \* pallet_balances free balance, the ledger the calls act on
    Clubs,           \* member-registry: StorageMap ClubId -> ClubInfo
    Members,         \* member-registry: StorageMap AccountId -> MemberInfo
    NextClubId,      \* member-registry: StorageValue NextClubId
    Attestations,    \* member-registry: StorageMap AttestationId -> Attestation
    NextAttestationId,  \* member-registry: StorageValue NextAttestationId
    Rules,           \* rewards: StorageMap RuleId -> RewardRule
    NextRuleId,      \* rewards: StorageValue NextRuleId
    RewardAttestations,       \* rewards: StorageMap AttestationId -> Attestation
    NextRewardAttestationId,  \* rewards: StorageValue NextAttestationId
    ClaimsThisEpoch, \* rewards: StorageDoubleMap (AccountId, RuleId) -> ClaimCounter
    NextClassId,     \* badges: StorageValue NextClassId
    NextInstanceId,  \* badges: StorageMap ClassId -> InstanceId (ValueQuery)
    Classes,         \* badges: StorageMap ClassId -> ClassInfo
    BadgeInstances,  \* badges: StorageDoubleMap (ClassId, InstanceId) -> BadgeInstance
    ClassInstances,  \* badges: StorageMap ClassId -> BoundedVec<InstanceId, 1024>
    events,          \* events deposited by the last request
    last,            \* the last request and its DispatchResult
    dispatched,      \* history: per proposal id, the calls whose dispatch returned Ok
    attempted,       \* history: ids for which execute reached decoded_call.dispatch
    assigned,        \* history: ids that a successful propose has handed out
    registered,      \* history: registry attestation ids that register_member consumed
    claimed,         \* history: the successful claim_reward calls, in order
    issued           \* history: per badge instance, the account it was issued to

vars == <<now, NextProposalId, Proposals, ClubProposals, balances, Clubs, Members,
          NextClubId, Attestations, NextAttestationId, Rules, NextRuleId,
          RewardAttestations, NextRewardAttestationId, ClaimsThisEpoch, NextClassId,
          NextInstanceId, Classes, BadgeInstances, ClassInstances, events, last,
          dispatched, attempted, assigned, registered, claimed, issued>>

routerStore == <<NextProposalId, Proposals, ClubProposals>>
registryStore == <<Clubs, Members, NextClubId>>
attestStore == <<Attestations, NextAttestationId, registered>>
rewardsStore == <<Rules, NextRuleId, RewardAttestations, NextRewardAttestationId,
                  ClaimsThisEpoch, claimed>>
badgesStore == <<NextClassId, NextInstanceId, Classes, BadgeInstances, ClassInstances,
                 issued>>

\* the storage of the pallets a chain starts with when its genesis configures
\* no reward rule and no badge class
AttestationsGenesis ==
    /\ Attestations = <<>>
    /\ NextAttestationId = 0
    /\ registered = {}
RewardsGenesis ==
    /\ Rules = <<>>
    /\ NextRuleId = 0
    /\ RewardAttestations = <<>>
    /\ NextRewardAttestationId = 0
    /\ ClaimsThisEpoch = <<>>
    /\ claimed = <<>>
BadgesGenesis ==
    /\ NextClassId = 0
    /\ NextInstanceId = <<>>
    /\ Classes = <<>>
    /\ BadgeInstances = <<>>
    /\ ClassInstances = <<>>
    /\ issued = <<>>

-----------------------------------------------------------------------------
(* Bounds of the model *)

NumAccounts == 3
MaxProposals == 1
MaxHeight == 4
NumClubs == 2
InitialPalletBalance == 2
\* the largest yea and the largest nay of the tallies that are executed
TallyMax == 6
\* proposals submitted after the index of a club has filled up
MaxLateProposals == 1
\* proposals stored side by side
PairProposals == 2
\* the action size limit of the specification; propose has no such parameter
MaxActionLen == 4

\* attestations the registry model creates
MaxRegistryAttestations == 2
\* officers a club of the registry model is given
MaxOfficers == 1
\* milliseconds the timestamp advances per block
MillisPerBlock == 2

\* reward rules the model creates
MaxRules == 1

(* Config parameters (Get<u32> of the runtime), set small *)
MaxClasses == 3
MaxInstancesPerClass == 1
MaxAttestations == 2
EpochLengthInBlocks == 2
MaxVotersPerProposal == 2
MaxMetadataLen == 1
DefaultVotingPeriod == 2

(* Program constants *)
DefaultQuorum == 1
DefaultPassThreshold == 5000
ClubIndexCap == 1024
\* u64::MAX and u32::MAX, both held at the largest integer of the checker
ProposalIdMax == 2147483647
BlockNumberMax == 2147483647
VotesMax == 2147483647
ClubIdMax == 2147483647
AttestationIdMax == 2147483647
RuleIdMax == 2147483647
ClassIdMax == 2147483647
InstanceIdMax == 2147483647
\* ClassInstances is a BoundedVec of 1024 instance ids
ClassInstancesCap == 1024
\* pallet_balances of the rewards runtime
ExistentialDeposit == 1
\* RewardRule::event_type is a BoundedVec of 32 bytes
EventTypeCap == 32
\* ClubInfo::officers is a BoundedVec of 32 accounts
OfficerCap == 32
\* construct_runtime! indices of the mock runtime: Balances is pallet 2
BalancesPalletIndex == 2
TransferCallIndex == 0

-----------------------------------------------------------------------------
(* Values *)

Accounts == 1..NumAccounts
ClubIds == 0..(NumClubs - 1)
ProposalIds == 0..MaxProposals
Heights == 0..(MaxHeight + 1)

\* Option<T>: None is the empty sequence, Some(x) the one-element sequence
None == <<>>
Some(x) == <<x>>
is_some(o) == Len(o) = 1
unwrap_or_default(o, d) == d
unwrap_or(o, d) == IF is_some(o) THEN o[1] ELSE d

\* frame_system::RawOrigin
Root == [kind |-> "Root", who |-> 0]
Signed(a) == [kind |-> "Signed", who |-> a]
SignedOrigins == {Signed(a) : a \in Accounts}
Origins == {Root} \cup SignedOrigins

\* enum Scope
Global == [tag |-> "Global", club |-> 0]
Club(c) == [tag |-> "Club", club |-> c]
Scopes == {Global} \cup {Club(c) : c \in ClubIds}

saturating_add_stuck(a, b, max) == a
saturating_add_double(a, b, max) == IF a >= max - b THEN max ELSE a + 2 * b
saturating_add(a, b, max) == IF a >= max - b THEN max ELSE a + b
saturating_sub(a, b) == IF a <= b THEN 0 ELSE a - b

contains(vec, x) == \E i \in 1..Len(vec) : vec[i] = x

\* BoundedVec::try_push
try_push_unbounded(vec, x, cap) == [ok |-> TRUE, vec |-> Append(vec, x)]
try_push_truncating(vec, x, cap) ==
    [ok |-> TRUE, vec |-> IF Len(vec) < cap THEN Append(vec, x) ELSE vec]
try_push(vec, x, cap) ==
    IF Len(vec) < cap THEN [ok |-> TRUE, vec |-> Append(vec, x)]
    ELSE [ok |-> FALSE, vec |-> vec]

\* StorageMap::get under OptionQuery
get(map, key) == IF key \in DOMAIN map THEN Some(map[key]) ELSE None
\* StorageMap write-back of an Option: Some(v) inserts, None removes
put(map, key, maybe) ==
    IF is_some(maybe)
    THEN [k \in (DOMAIN map) \cup {key} |-> IF k = key THEN maybe[1] ELSE map[k]]
    ELSE [k \in (DOMAIN map) \ {key} |-> map[k]]

\* StorageMap::try_mutate(key, f): r is f's outcome on the loaded value; the
\* value is written back only when f returned Ok
try_mutate(map, key, r) == IF r.result = "Ok" THEN put(map, key, r.value) ELSE map

-----------------------------------------------------------------------------
(* The ledger: SCALE-encoded RuntimeCall bytes, decode and dispatch *)

\* Call::Balances(transfer { dest, value }).encode(), one byte per field
encode_transfer(dest, value) == <<BalancesPalletIndex, TransferCallIndex, dest, value>>

\* RuntimeCall::decode(&mut &p.call[..]): reads a prefix, trailing bytes are
\* not looked at; an unknown index or a short input is a decode error
decode_call_lenient(bytes) ==
    Some([dest |-> IF Len(bytes) >= 3 THEN bytes[3] ELSE 1,
          value |-> IF Len(bytes) >= 4 THEN bytes[4] ELSE 1])
decode_call(bytes) ==
    IF Len(bytes) >= 4 /\ bytes[1] = BalancesPalletIndex /\ bytes[2] = TransferCallIndex
    THEN Some([dest |-> bytes[3], value |-> bytes[4]])
    ELSE None

\* pallet_id_from_bytes: the first 8 bytes, zero padded
pallet_id_from_bytes(b) == [i \in 1..8 |-> IF i <= Len(b) THEN b[i] ELSE 0]

\* b"proposal_r"
entropy == <<112, 114, 111, 112, 111, 115, 97, 108, 95, 114>>

\* into_account_truncating: b"modl" ++ id, cut to the width of AccountId; the
\* model's AccountId is three bytes wide, read little-endian
into_account_truncating(id) ==
    LET bytes == <<109, 111, 100, 108>> \o id
    IN bytes[1] + 256 * bytes[2] + 65536 * bytes[3]

signer_account == CHOOSE a \in Accounts : TRUE
pallet_account == into_account_truncating(pallet_id_from_bytes(entropy))

LedgerAccounts == Accounts \cup {pallet_account}

\* decoded_call.dispatch(Signed(from)) for Balances::transfer: fails when the
\* sender's free balance does not cover the value, and then changes nothing
dispatch_crediting_twice(bal, from, call) ==
    IF call.dest \in DOMAIN bal /\ bal[from] >= call.value
    THEN [ok |-> TRUE,
          bal |-> [a \in DOMAIN bal |->
                      IF a = from THEN bal[a] - call.value
                      ELSE IF a = call.dest THEN bal[a] + 2 * call.value
                      ELSE bal[a]]]
    ELSE [ok |-> FALSE, bal |-> bal]
dispatch(bal, from, call) ==
    IF call.dest \in DOMAIN bal /\ bal[from] >= call.value
    THEN [ok |-> TRUE,
          bal |-> [a \in DOMAIN bal |->
                      IF a = from /\ a = call.dest THEN bal[a]
                      ELSE IF a = from THEN bal[a] - call.value
                      ELSE IF a = call.dest THEN bal[a] + call.value
                      ELSE bal[a]]]
    ELSE [ok |-> FALSE, bal |-> bal]

-----------------------------------------------------------------------------
(* pallet-proposal-router *)

\* A request that returned Err is rolled back as a whole
no_storage_layer(result, new, old) == new
with_storage_layer(result, new, old) == IF result = "Ok" THEN new ELSE old

ensure_signed_first_only(origin) ==
    origin.kind = "Signed" /\ origin.who = CHOOSE a \in Accounts : TRUE
ensure_signed(origin) == origin.kind = "Signed"
\* RouterAdminOrigin = EnsureRoot
ensure_router_admin(origin) == origin.kind = "Root"

saturating_mul(a, b, max) == IF b # 0 /\ a > max \div b THEN max ELSE a * b

\* the arguments of propose other than the origin
Request(scope, call, metadata, voting_period, quorum, pass_threshold) ==
    [scope |-> scope, call |-> call, metadata |-> metadata,
     voting_period |-> voting_period, quorum |-> quorum,
     pass_threshold |-> pass_threshold]

\* propose, lines 210-217: the metadata size check
metadata_ok_strict(metadata) == ~is_some(metadata) \/ Len(metadata[1]) < MaxMetadataLen
metadata_ok(metadata) == ~is_some(metadata) \/ Len(metadata[1]) <= MaxMetadataLen

\* propose, lines 220-242: the record built for a new proposal
new_proposal_preexecuted(id, who, req, start) ==
    [id |-> id, proposer |-> who, scope |-> req.scope, call |-> req.call,
     metadata |-> req.metadata, start |-> start,
     end |-> saturating_add(start, unwrap_or(req.voting_period, DefaultVotingPeriod),
                            BlockNumberMax),
     yea |-> 0, nay |-> 0, executed |-> TRUE, voters |-> <<>>,
     quorum |-> unwrap_or(req.quorum, DefaultQuorum),
     pass_threshold |-> unwrap_or(req.pass_threshold, DefaultPassThreshold),
     club |-> IF req.scope.tag = "Club" THEN Some(req.scope.club) ELSE None]
new_proposal(id, who, req, start) ==
    [id |-> id,
     proposer |-> who,
     scope |-> req.scope,
     call |-> req.call,
     metadata |-> req.metadata,
     start |-> start,
     end |-> saturating_add(start, unwrap_or(req.voting_period, DefaultVotingPeriod),
                            BlockNumberMax),
     yea |-> 0,
     nay |-> 0,
     executed |-> FALSE,
     voters |-> <<>>,
     quorum |-> unwrap_or(req.quorum, DefaultQuorum),
     pass_threshold |-> unwrap_or(req.pass_threshold, DefaultPassThreshold),
     club |-> IF req.scope.tag = "Club" THEN Some(req.scope.club) ELSE None]

\* propose, lines 246-257: ClubProposals::mutate(cid, ..) with try_push(id)
club_index_push_evicting(index, cid, id) ==
    LET old == unwrap_or(get(index, cid), <<>>)
        kept == IF Len(old) < ClubIndexCap THEN old ELSE Tail(old)
    IN [ok |-> TRUE, index |-> put(index, cid, Some(Append(kept, id)))]
club_index_push(index, cid, id) ==
    LET old == unwrap_or(get(index, cid), <<>>)
        r == try_push(old, id, ClubIndexCap)
    IN [ok |-> r.ok, index |-> put(index, cid, Some(r.vec))]

\* propose as a function of the state it reads: the DispatchResult and the
\* storage and events it leaves when that result is Ok
propose_call(origin, req, h, nextId, props, index) ==
    IF ~ensure_signed(origin)
    THEN [result |-> "BadOrigin", next |-> nextId, props |-> props, index |-> index,
          events |-> <<>>]
    ELSE IF ~metadata_ok(req.metadata)
    THEN [result |-> "MetadataTooLarge", next |-> nextId, props |-> props,
          index |-> index, events |-> <<>>]
    ELSE
      LET who == origin.who
          id == nextId
          inserted == put(props, id, Some(new_proposal(id, who, req, h)))
          pushed == IF req.scope.tag = "Club"
                    THEN club_index_push(index, req.scope.club, id)
                    ELSE [ok |-> TRUE, index |-> index]
      IN IF ~pushed.ok
         THEN [result |-> "ClubIndexOverflow", next |-> nextId, props |-> inserted,
               index |-> index, events |-> <<>>]
         ELSE [result |-> "Ok",
               next |-> saturating_add(id, 1, ProposalIdMax),
               props |-> inserted,
               index |-> pushed.index,
               events |-> << <<"ProposalCreated", id, who, req.scope.tag = "Club">> >>]

\* vote, line 279
window_open_forever(p, h) == h >= p.start
window_open_exclusive(p, h) == h > p.start /\ h < p.end
window_open(p, h) == h >= p.start /\ h <= p.end

\* vote, line 280
already_voted_unchecked(p, who) == FALSE
already_voted(p, who) == contains(p.voters, who)

\* vote, lines 276-306: the try_mutate closure, on the loaded Option<Proposal>
vote_closure(maybe, who, id, aye, h) ==
    IF ~is_some(maybe)
    THEN [result |-> "ProposalNotFound", value |-> maybe, events |-> <<>>]
    ELSE
      LET p == maybe[1] IN
      IF ~window_open(p, h)
      THEN [result |-> "VotingClosed", value |-> maybe, events |-> <<>>]
      ELSE IF already_voted(p, who)
      THEN [result |-> "AlreadyVoted", value |-> maybe, events |-> <<>>]
      ELSE
        LET counted == IF aye
                       THEN [p EXCEPT !.yea = saturating_add(@, 1, VotesMax)]
                       ELSE [p EXCEPT !.nay = saturating_add(@, 1, VotesMax)]
            pushed == try_push(counted.voters, who, MaxVotersPerProposal)
        IN IF ~pushed.ok
           THEN [result |-> "VotersOverflow", value |-> Some(counted), events |-> <<>>]
           ELSE [result |-> "Ok",
                 value |-> Some([counted EXCEPT !.voters = pushed.vec]),
                 events |-> << <<"Voted", id, who, aye, 1>> >>]

\* execute, line 322
window_over_inclusive(p, h) == h >= p.end
window_over(p, h) == h > p.end

\* execute, lines 325-326
quorum_reached_by_yea(p) == p.yea >= p.quorum
quorum_reached(p) == saturating_add(p.yea, p.nay, VotesMax) >= p.quorum

\* execute, lines 329-335
pass_percent_x100_full_when_empty(p) ==
    LET total_votes == saturating_add(p.yea, p.nay, VotesMax)
    IN IF total_votes = 0 THEN 10000
       ELSE saturating_mul(p.yea, 10000, VotesMax) \div total_votes
pass_percent_x100_rounded_up(p) ==
    LET total_votes == saturating_add(p.yea, p.nay, VotesMax)
    IN IF total_votes = 0 THEN 0
       ELSE (saturating_mul(p.yea, 10000, VotesMax) + total_votes - 1) \div total_votes
pass_percent_x100(p) ==
    LET total_votes == saturating_add(p.yea, p.nay, VotesMax)
    IN IF total_votes = 0 THEN 0
       ELSE saturating_mul(p.yea, 10000, VotesMax) \div total_votes

\* execute, lines 346: the flag set after the dispatch returned
mark_executed_never(p) == p
mark_executed(p) == [p EXCEPT !.executed = TRUE]

\* execute, lines 317-362: the try_mutate closure, on the loaded Option<Proposal>;
\* tried says whether decoded_call.dispatch was called, bal is the ledger after it
execute_closure(maybe, id, h, bal) ==
    LET stop(err) == [result |-> err, value |-> maybe, bal |-> bal, tried |-> FALSE,
                      principal |-> None, call |-> None, events |-> <<>>]
    IN
    IF ~is_some(maybe) THEN stop("ProposalNotFound")
    ELSE
      LET p == maybe[1] IN
      IF p.executed THEN stop("ProposalAlreadyExecuted")
      ELSE IF ~window_over(p, h) THEN stop("VotingClosed")
      ELSE IF ~quorum_reached(p) THEN stop("QuorumNotReached")
      ELSE IF ~(pass_percent_x100(p) >= p.pass_threshold) THEN stop("ProposalNotPassed")
      ELSE
        LET decoded_call == decode_call(p.call) IN
        IF ~is_some(decoded_call) THEN stop("InvalidCallEncoding")
        ELSE
          LET d == dispatch(bal, pallet_account, decoded_call[1])
              done == Some(mark_executed(p))
          IN IF d.ok
             THEN [result |-> "Ok", value |-> done, bal |-> d.bal, tried |-> TRUE,
                   principal |-> Some(pallet_account), call |-> decoded_call,
                   events |-> << <<"ProposalExecuted", id>> >>]
             ELSE [result |-> "ExecutionFailed", value |-> done, bal |-> d.bal,
                   tried |-> TRUE, principal |-> Some(pallet_account),
                   call |-> decoded_call,
                   events |-> << <<"ProposalFailed", id, "DispatchError">> >>]

\* cancel, lines 370-373: the try_mutate_exists closure
cancel_closure_keeping(maybe) ==
    IF ~is_some(maybe) THEN [result |-> "ProposalNotFound", value |-> maybe]
    ELSE [result |-> "Ok", value |-> maybe]
cancel_closure(maybe) ==
    IF ~is_some(maybe) THEN [result |-> "ProposalNotFound", value |-> maybe]
    ELSE [result |-> "Ok", value |-> None]

\* vote as a function of the state it reads: the DispatchResult and the
\* Proposals map and events it leaves
vote_call(origin, id, aye, h, props) ==
    IF ~ensure_signed(origin)
    THEN [result |-> "BadOrigin", props |-> props, events |-> <<>>]
    ELSE LET r == vote_closure(get(props, id), origin.who, id, aye, h)
         IN [result |-> r.result,
             props |-> with_storage_layer(r.result, try_mutate(props, id, r), props),
             events |-> with_storage_layer(r.result, r.events, <<>>)]

\* execute as a function of the state it reads: the DispatchResult, the
\* Proposals map, ledger and events it leaves, and whether it dispatched
execute_call(origin, id, h, props, bal) ==
    IF ~ensure_signed(origin)
    THEN [result |-> "BadOrigin", props |-> props, bal |-> bal, events |-> <<>>,
          tried |-> FALSE, principal |-> None, call |-> None]
    ELSE LET r == execute_closure(get(props, id), id, h, bal)
         IN [result |-> r.result,
             props |-> with_storage_layer(r.result, try_mutate(props, id, r), props),
             bal |-> with_storage_layer(r.result, r.bal, bal),
             events |-> with_storage_layer(r.result, r.events, <<>>),
             tried |-> r.tried,
             principal |-> r.principal,
             call |-> r.call]

\* cancel as a function of the state it reads
cancel_call(origin, id, props) ==
    IF ~ensure_router_admin(origin)
    THEN [result |-> "BadOrigin", props |-> props, events |-> <<>>]
    ELSE LET r == cancel_closure(get(props, id))
         IN [result |-> r.result,
             props |-> with_storage_layer(r.result, try_mutate(props, id, r), props),
             events |-> with_storage_layer(r.result,
                                           << <<"ProposalCancelled", id>> >>, <<>>)]

-----------------------------------------------------------------------------
(* The requests the model submits *)

CallTransfer == encode_transfer(1, 1)
\* a transfer the pallet account can never cover
CallOverdraw == encode_transfer(2, InitialPalletBalance + 1)
\* a truncated encoding
CallUndecodable == <<BalancesPalletIndex>>

MetadataFull == [i \in 1..MaxMetadataLen |-> 7]
MetadataOver == [i \in 1..(MaxMetadataLen + 1) |-> 7]

ProposeRequests ==
    { Request(Global, CallTransfer, None, None, None, None),
      Request(Club(0), CallTransfer, Some(MetadataFull), Some(1), Some(0), Some(0)),
      Request(Global, CallOverdraw, None, Some(0), Some(0), Some(0)),
      Request(Club(1), CallUndecodable, None, Some(1), Some(1), Some(10000)),
      Request(Club(0), CallTransfer, None, Some(1), Some(2), Some(5000)),
      Request(Global, CallTransfer, Some(MetadataOver), None, None, None) }

-----------------------------------------------------------------------------
(* Actions of pallet-proposal-router *)

Result(op, result) == [op |-> op, result |-> result]

\* propose(origin, scope, call, metadata, voting_period, quorum, pass_threshold)
\* while the id counter is in ids
ProposeWhile(origin, req, ids) ==
    /\ NextProposalId \in ids
    /\ LET r == propose_call(origin, req, now, NextProposalId, Proposals, ClubProposals)
       IN /\ NextProposalId' = with_storage_layer(r.result, r.next, NextProposalId)
          /\ Proposals' = with_storage_layer(r.result, r.props, Proposals)
          /\ ClubProposals' = with_storage_layer(r.result, r.index, ClubProposals)
          /\ events' = with_storage_layer(r.result, r.events, <<>>)
          /\ last' = Result("propose", r.result)
          /\ assigned' = IF r.result = "Ok" THEN assigned \cup {NextProposalId}
                         ELSE assigned
    /\ UNCHANGED <<now, balances, registryStore, attestStore, rewardsStore,
                   badgesStore, dispatched, attempted>>

Propose(origin, req) == ProposeWhile(origin, req, 0..(MaxProposals - 1))

\* vote(origin, proposal_id, aye)
Vote(origin, id, aye) ==
    /\ LET r == vote_call(origin, id, aye, now, Proposals)
       IN /\ Proposals' = r.props
          /\ events' = r.events
          /\ last' = Result("vote", r.result)
    /\ UNCHANGED <<now, NextProposalId, ClubProposals, balances, registryStore,
                   attestStore, rewardsStore, badgesStore, dispatched, attempted, assigned>>

\* execute(origin, proposal_id)
Execute(origin, id) ==
    /\ LET r == execute_call(origin, id, now, Proposals, balances)
       IN /\ Proposals' = r.props
          /\ balances' = r.bal
          /\ events' = r.events
          /\ last' = Result("execute", r.result)
          /\ dispatched' = IF r.result = "Ok"
                           THEN [dispatched EXCEPT ![id] = Append(@, r.call[1])]
                           ELSE dispatched
          /\ attempted' = IF r.tried THEN attempted \cup {id} ELSE attempted
    /\ UNCHANGED <<now, NextProposalId, ClubProposals, registryStore, attestStore,
                   rewardsStore, badgesStore, assigned>>

\* cancel(origin, proposal_id)
Cancel(origin, id) ==
    /\ LET r == cancel_call(origin, id, Proposals)
       IN /\ Proposals' = r.props
          /\ events' = r.events
          /\ last' = Result("cancel", r.result)
    /\ UNCHANGED <<now, NextProposalId, ClubProposals, balances, registryStore,
                   attestStore, rewardsStore, badgesStore, dispatched, attempted, assigned>>

\* the chain produces the next block
AdvanceBlock ==
    /\ now < MaxHeight
    /\ now' = now + 1
    /\ events' = <<>>
    /\ last' = Result("block", "Ok")
    /\ UNCHANGED <<routerStore, balances, registryStore, attestStore, rewardsStore,
                   badgesStore, dispatched, attempted, assigned>>

-----------------------------------------------------------------------------
(* pallet-member-registry: clubs and members *)

\* RootClubAdminOrigin = EnsureRoot
ensure_root_club_admin(origin) == origin.kind = "Root"

\* is_member
is_member(members, who) == who \in DOMAIN members

\* member_clubs
member_clubs(members, who) ==
    IF who \in DOMAIN members THEN Some(members[who].clubs) ELSE None

\* create_club as a function of the state it reads
create_club_call(origin, admin, nextClub, clubs) ==
    IF ~ensure_root_club_admin(origin)
    THEN [result |-> "BadOrigin", next |-> nextClub, clubs |-> clubs, events |-> <<>>]
    ELSE [result |-> "Ok",
          next |-> saturating_add(nextClub, 1, ClubIdMax),
          clubs |-> put(clubs, nextClub,
                        Some([admin |-> admin, officers |-> <<>>, members_count |-> 0])),
          events |-> << <<"ClubCreated", nextClub, admin>> >>]

\* add_member_admin as a function of the state it reads
add_member_admin_call(origin, subject, club, clubs, members) ==
    LET stop(err) == [result |-> err, clubs |-> clubs, members |-> members,
                      events |-> <<>>]
    IN
    IF ~ensure_signed(origin) THEN stop("BadOrigin")
    ELSE IF ~is_some(get(clubs, club)) THEN stop("ClubNotFound")
    ELSE IF origin.who # clubs[club].admin THEN stop("NotClubAdmin")
    ELSE IF subject \in DOMAIN members THEN stop("AlreadyMember")
    ELSE [result |-> "Ok",
          members |-> put(members, subject,
                          Some([clubs |-> <<club>>, roles |-> <<>>, status |-> "Active"])),
          clubs |-> [clubs EXCEPT ![club].members_count = saturating_add(@, 1, VotesMax)],
          events |-> << <<"MemberRegistered", subject, club>> >>]

\* remove_member_admin as a function of the state it reads
remove_member_admin_call(origin, subject, club, clubs, members) ==
    LET stop(err) == [result |-> err, clubs |-> clubs, members |-> members,
                      events |-> <<>>]
    IN
    IF ~ensure_signed(origin) THEN stop("BadOrigin")
    ELSE IF ~is_some(get(clubs, club)) THEN stop("ClubNotFound")
    ELSE IF origin.who # clubs[club].admin THEN stop("NotClubAdmin")
    ELSE IF ~is_some(get(members, subject)) THEN stop("MemberNotFound")
    ELSE [result |-> "Ok",
          members |-> [members EXCEPT ![subject].status = "Removed"],
          clubs |-> [clubs EXCEPT ![club].members_count = saturating_sub(@, 1)],
          events |-> << <<"MemberRemoved", subject, club>> >>]

\* create_club(origin, name, admin, metadata)
CreateClub(origin, admin) ==
    /\ NextClubId < NumClubs
    /\ LET r == create_club_call(origin, admin, NextClubId, Clubs)
       IN /\ NextClubId' = r.next
          /\ Clubs' = r.clubs
          /\ events' = r.events
          /\ last' = Result("create_club", r.result)
    /\ UNCHANGED <<now, routerStore, balances, attestStore, rewardsStore, badgesStore,
                   Members, dispatched, attempted, assigned>>

\* add_member_admin(origin, subject, club)
AddMemberAdmin(origin, subject, club) ==
    /\ LET r == add_member_admin_call(origin, subject, club, Clubs, Members)
       IN /\ Clubs' = r.clubs
          /\ Members' = r.members
          /\ events' = r.events
          /\ last' = Result("add_member_admin", r.result)
    /\ UNCHANGED <<now, routerStore, balances, attestStore, rewardsStore, badgesStore,
                   NextClubId, dispatched, attempted, assigned>>

\* remove_member_admin(origin, subject, club)
RemoveMemberAdmin(origin, subject, club) ==
    /\ LET r == remove_member_admin_call(origin, subject, club, Clubs, Members)
       IN /\ Clubs' = r.clubs
          /\ Members' = r.members
          /\ events' = r.events
          /\ last' = Result("remove_member_admin", r.result)
    /\ UNCHANGED <<now, routerStore, balances, attestStore, rewardsStore, badgesStore,
                   NextClubId, dispatched, attempted, assigned>>

-----------------------------------------------------------------------------
(* pallet-member-registry: officers and attestations *)

\* T::Time::now().as_millis() at block height h
now_millis(h) == h * MillisPerBlock

\* Vec::swap_remove: the last element takes the place of the removed one
swap_remove(vec, pos) ==
    [i \in 1..(Len(vec) - 1) |-> IF i = pos THEN vec[Len(vec)] ELSE vec[i]]

\* Iterator::position, counted from 1; 0 when there is none
position(vec, x) ==
    IF contains(vec, x) THEN CHOOSE i \in 1..Len(vec) :
                                /\ vec[i] = x
                                /\ \A j \in 1..(i - 1) : vec[j] # x
    ELSE 0

\* is_officer_or_admin: Err(ClubNotFound) or Ok(bool)
is_officer_or_admin(clubs, acct, club) ==
    IF club \notin DOMAIN clubs THEN [ok |-> FALSE, value |-> FALSE]
    ELSE [ok |-> TRUE,
          value |-> acct = clubs[club].admin \/ contains(clubs[club].officers, acct)]

\* add_officer as a function of the state it reads
add_officer_call(origin, club, officer, clubs) ==
    LET stop(err) == [result |-> err, clubs |-> clubs, events |-> <<>>] IN
    IF ~ensure_signed(origin) THEN stop("BadOrigin")
    ELSE IF ~is_some(get(clubs, club)) THEN stop("ClubNotFound")
    ELSE IF clubs[club].admin # origin.who THEN stop("NotClubAdmin")
    ELSE LET pushed == try_push(clubs[club].officers, officer, OfficerCap)
         IN IF ~pushed.ok THEN stop("Overflow")
            ELSE [result |-> "Ok",
                  clubs |-> [clubs EXCEPT ![club].officers = pushed.vec],
                  events |-> << <<"OfficerAdded", club, officer>> >>]

\* remove_officer as a function of the state it reads
remove_officer_call(origin, club, officer, clubs) ==
    LET stop(err) == [result |-> err, clubs |-> clubs, events |-> <<>>] IN
    IF ~ensure_signed(origin) THEN stop("BadOrigin")
    ELSE IF ~is_some(get(clubs, club)) THEN stop("ClubNotFound")
    ELSE IF clubs[club].admin # origin.who THEN stop("NotClubAdmin")
    ELSE LET pos == position(clubs[club].officers, officer)
         IN [result |-> "Ok",
             clubs |-> IF pos = 0 THEN clubs
                       ELSE [clubs EXCEPT ![club].officers = swap_remove(@, pos)],
             events |-> << <<"OfficerRemoved", club, officer>> >>]

\* create_attestation as a function of the state it reads
create_attestation_call(origin, subject, club, expires_at, h, nextId, atts, clubs) ==
    LET stop(err) == [result |-> err, next |-> nextId, atts |-> atts, events |-> <<>>] IN
    IF ~ensure_signed(origin) THEN stop("BadOrigin")
    ELSE IF ~is_some(get(clubs, club)) THEN stop("ClubNotFound")
    ELSE IF ~(origin.who = clubs[club].admin \/ contains(clubs[club].officers, origin.who))
    THEN stop("AttestorNotAuthorized")
    ELSE [result |-> "Ok",
          next |-> saturating_add(nextId, 1, AttestationIdMax),
          atts |-> put(atts, nextId,
                       Some([subject |-> subject, club |-> club, attestor |-> origin.who,
                             created_at |-> now_millis(h), expires_at |-> expires_at,
                             used |-> FALSE])),
          events |-> << <<"AttestationCreated", nextId, subject, club, origin.who>> >>]

\* register_member, lines 322-324: the attestation is written back as used
mark_used_never(att) == att
mark_used(att) == [att EXCEPT !.used = TRUE]

\* register_member as a function of the state it reads
register_member_call(origin, attestation_id, h, atts, clubs, members) ==
    LET stop(err) == [result |-> err, atts |-> atts, clubs |-> clubs,
                      members |-> members, events |-> <<>>]
    IN
    IF ~ensure_signed(origin) THEN stop("BadOrigin")
    ELSE IF ~is_some(get(atts, attestation_id)) THEN stop("AttestationNotFound")
    ELSE
      LET who == origin.who
          att == atts[attestation_id]
      IN
      IF att.used THEN stop("AttestationUsed")
      ELSE IF att.subject # who THEN stop("InvalidInput")
      ELSE IF is_some(att.expires_at) /\ ~(now_millis(h) <= att.expires_at[1])
      THEN stop("AttestationExpired")
      ELSE IF ~is_some(get(clubs, att.club)) THEN stop("ClubNotFound")
      ELSE IF ~(att.attestor = clubs[att.club].admin
                  \/ contains(clubs[att.club].officers, att.attestor))
      THEN stop("AttestorNotAuthorized")
      ELSE IF who \in DOMAIN members THEN stop("AlreadyMember")
      ELSE [result |-> "Ok",
            members |-> put(members, who,
                            Some([clubs |-> <<att.club>>, roles |-> <<>>,
                                  status |-> "Active"])),
            clubs |-> [clubs EXCEPT ![att.club].members_count =
                                        saturating_add(@, 1, VotesMax)],
            atts |-> put(atts, attestation_id, Some(mark_used(att))),
            events |-> << <<"MemberRegistered", who, att.club>>,
                          <<"AttestationUsed", attestation_id, who, att.club>> >>]

\* revoke_attestation as a function of the state it reads
revoke_attestation_call(origin, attestation_id, atts, clubs) ==
    LET stop(err) == [result |-> err, atts |-> atts, events |-> <<>>] IN
    IF ~ensure_signed(origin) THEN stop("BadOrigin")
    ELSE IF ~is_some(get(atts, attestation_id)) THEN stop("AttestationNotFound")
    ELSE
      LET att == atts[attestation_id] IN
      IF ~is_some(get(clubs, att.club)) THEN stop("ClubNotFound")
      ELSE IF origin.who # att.attestor /\ origin.who # clubs[att.club].admin
      THEN stop("NotClubAdmin")
      ELSE [result |-> "Ok",
            atts |-> put(atts, attestation_id, None),
            events |-> << <<"AttestationRevoked", attestation_id>> >>]

\* add_officer(origin, club, officer)
AddOfficer(origin, club, officer) ==
    /\ LET r == add_officer_call(origin, club, officer, Clubs)
       IN /\ Clubs' = r.clubs
          /\ events' = r.events
          /\ last' = Result("add_officer", r.result)
    /\ UNCHANGED <<now, routerStore, balances, attestStore, rewardsStore, badgesStore,
                   Members, NextClubId, dispatched, attempted, assigned>>

\* remove_officer(origin, club, officer)
RemoveOfficer(origin, club, officer) ==
    /\ LET r == remove_officer_call(origin, club, officer, Clubs)
       IN /\ Clubs' = r.clubs
          /\ events' = r.events
          /\ last' = Result("remove_officer", r.result)
    /\ UNCHANGED <<now, routerStore, balances, attestStore, rewardsStore, badgesStore,
                   Members, NextClubId, dispatched, attempted, assigned>>

\* create_attestation(origin, subject, club, expires_at, metadata)
CreateAttestation(origin, subject, club, expires_at) ==
    /\ NextAttestationId < MaxRegistryAttestations
    /\ LET r == create_attestation_call(origin, subject, club, expires_at, now,
                                        NextAttestationId, Attestations, Clubs)
       IN /\ Attestations' = r.atts
          /\ NextAttestationId' = r.next
          /\ events' = r.events
          /\ last' = Result("create_attestation", r.result)
    /\ UNCHANGED <<now, routerStore, balances, registryStore, registered, rewardsStore,
                   badgesStore, dispatched, attempted, assigned>>

\* register_member(origin, attestation_id)
RegisterMember(origin, attestation_id) ==
    /\ LET r == register_member_call(origin, attestation_id, now, Attestations, Clubs,
                                     Members)
       IN /\ Attestations' = r.atts
          /\ Clubs' = r.clubs
          /\ Members' = r.members
          /\ events' = r.events
          /\ last' = Result("register_member", r.result)
          /\ registered' = IF r.result = "Ok" THEN registered \cup {attestation_id}
                           ELSE registered
    /\ UNCHANGED <<now, routerStore, balances, NextClubId, NextAttestationId,
                   rewardsStore, badgesStore, dispatched, attempted, assigned>>

\* revoke_attestation(origin, attestation_id)
RevokeAttestation(origin, attestation_id) ==
    /\ LET r == revoke_attestation_call(origin, attestation_id, Attestations, Clubs)
       IN /\ Attestations' = r.atts
          /\ events' = r.events
          /\ last' = Result("revoke_attestation", r.result)
    /\ UNCHANGED <<now, routerStore, balances, registryStore, NextAttestationId,
                   registered, rewardsStore, badgesStore, dispatched, attempted, assigned>>

-----------------------------------------------------------------------------
(* pallet-rewards: rules, attestations and claims *)

\* RuleCreationOrigin = EnsureRoot, ManualAwardOrigin = EnsureRoot
ensure_rule_creation(origin) == origin.kind = "Root"
ensure_manual_award(origin) == origin.kind = "Root"

\* current_epoch
current_epoch(h) == IF EpochLengthInBlocks = 0 THEN 0 ELSE h \div EpochLengthInBlocks

\* ClaimsThisEpoch::get under ValueQuery: ClaimCounter::default() when absent
claims_this_epoch(counters, who, rule_id) ==
    IF <<who, rule_id>> \in DOMAIN counters THEN counters[<<who, rule_id>>]
    ELSE [epoch |-> 0, count |-> 0]

\* Currency::deposit_creating of pallet_balances: an account without balance
\* is not created by less than the existential deposit
deposit_creating(bal, who, amount) ==
    IF bal[who] = 0 /\ amount < ExistentialDeposit THEN bal
    ELSE [bal EXCEPT ![who] = @ + amount]

\* create_rule as a function of the state it reads
create_rule_call(origin, event_type, amount, max_per_epoch, club, nextRule, rules) ==
    LET stop(err) == [result |-> err, next |-> nextRule, rules |-> rules,
                      events |-> <<>>]
    IN
    IF ~ensure_rule_creation(origin) THEN stop("BadOrigin")
    ELSE IF Len(event_type) > EventTypeCap THEN stop("InvalidInput")
    ELSE [result |-> "Ok",
          next |-> saturating_add(nextRule, 1, RuleIdMax),
          rules |-> put(rules, nextRule,
                        Some([event_type |-> event_type, amount |-> amount,
                              max_per_epoch |-> max_per_epoch, club |-> club])),
          events |-> << <<"RuleCreated", nextRule>> >>]

\* create_attestation of pallet-rewards as a function of the state it reads
reward_create_attestation_call(origin, subject, rule_id, expires_at, h, nextId, atts, rules, clubs) ==
    LET stop(err) == [result |-> err, next |-> nextId, atts |-> atts, events |-> <<>>] IN
    IF ~ensure_signed(origin) THEN stop("BadOrigin")
    ELSE IF ~is_some(get(rules, rule_id)) THEN stop("RuleNotFound")
    ELSE
      LET attestor == origin.who
          rule == rules[rule_id]
          authorized ==
              IF is_some(rule.club)
              THEN LET ok == is_officer_or_admin(clubs, attestor, rule.club[1])
                   IN ok.ok /\ ok.value
              ELSE ensure_manual_award(Signed(attestor))
      IN
      IF ~authorized THEN stop("NotAuthorizedAttestor")
      ELSE IF ~(nextId < MaxAttestations) THEN stop("AttestationsOverflow")
      ELSE [result |-> "Ok",
            next |-> saturating_add(nextId, 1, AttestationIdMax),
            atts |-> put(atts, nextId,
                         Some([subject |-> subject, rule_id |-> rule_id,
                               attestor |-> attestor, created_at |-> now_millis(h),
                               expires_at |-> expires_at, used |-> FALSE])),
            events |-> << <<"AttestationCreated", nextId, subject, rule_id, attestor>> >>]

\* claim_reward, lines 303-314: the ClaimsThisEpoch::try_mutate closure
count_claim(counter, epoch, max_per_epoch) ==
    LET fresh == IF counter.epoch # epoch THEN [epoch |-> epoch, count |-> 0]
                 ELSE counter
        new_count == saturating_add(fresh.count, 1, VotesMax)
    IN IF new_count <= max_per_epoch
       THEN [ok |-> TRUE, counter |-> [fresh EXCEPT !.count = new_count]]
       ELSE [ok |-> FALSE, counter |-> counter]

\* claim_reward, lines 316-318: the attestation is written back as used
consume_never(att) == att
consume(att) == [att EXCEPT !.used = TRUE]

\* claim_reward as a function of the state it reads
claim_reward_call(origin, attestation_id, h, atts, rules, clubs, counters, bal) ==
    LET stop(err) == [result |-> err, atts |-> atts, counters |-> counters,
                      bal |-> bal, paid |-> None, events |-> <<>>]
    IN
    IF ~ensure_signed(origin) THEN stop("BadOrigin")
    ELSE IF ~is_some(get(atts, attestation_id)) THEN stop("AttestationNotFound")
    ELSE
      LET who == origin.who
          att == atts[attestation_id]
      IN
      IF att.subject # who THEN stop("InvalidInput")
      ELSE IF att.used THEN stop("AttestationUsed")
      ELSE IF is_some(att.expires_at) /\ ~(now_millis(h) <= att.expires_at[1])
      THEN stop("AttestationExpired")
      ELSE IF ~is_some(get(rules, att.rule_id)) THEN stop("RuleNotFound")
      ELSE
        LET rule == rules[att.rule_id]
            authorized ==
                IF is_some(rule.club)
                THEN LET ok == is_officer_or_admin(clubs, att.attestor, rule.club[1])
                     IN ok.ok /\ ok.value
                ELSE TRUE
            counted == count_claim(claims_this_epoch(counters, who, att.rule_id),
                                   current_epoch(h), rule.max_per_epoch)
        IN
        IF ~authorized THEN stop("NotAuthorizedAttestor")
        ELSE IF ~counted.ok THEN stop("ExceedsLimit")
        ELSE [result |-> "Ok",
              atts |-> put(atts, attestation_id, Some(consume(att))),
              counters |-> put(counters, <<who, att.rule_id>>, Some(counted.counter)),
              bal |-> deposit_creating(bal, who, rule.amount),
              paid |-> Some([who |-> who, rule_id |-> att.rule_id,
                             epoch |-> current_epoch(h),
                             attestation_id |-> attestation_id,
                             amount |-> rule.amount]),
              events |-> << <<"RewardClaimed", who, att.rule_id, attestation_id,
                              rule.amount>> >>]

\* revoke_attestation of pallet-rewards as a function of the state it reads
reward_revoke_attestation_call(origin, attestation_id, atts, rules, clubs) ==
    LET stop(err) == [result |-> err, atts |-> atts, events |-> <<>>] IN
    IF ~ensure_signed(origin) THEN stop("BadOrigin")
    ELSE IF ~is_some(get(atts, attestation_id)) THEN stop("AttestationNotFound")
    ELSE
      LET who == origin.who
          att == atts[attestation_id]
      IN
      IF ~is_some(get(rules, att.rule_id)) THEN stop("RuleNotFound")
      ELSE
        LET rule == rules[att.rule_id]
            authorized ==
                IF is_some(rule.club)
                THEN \/ who = att.attestor
                     \/ LET ok == is_officer_or_admin(clubs, who, rule.club[1])
                        IN ok.ok /\ ok.value
                ELSE ensure_manual_award(Signed(who))
        IN IF ~authorized THEN stop("NotAuthorizedAttestor")
           ELSE [result |-> "Ok",
                 atts |-> put(atts, attestation_id, None),
                 events |-> << <<"AttestationRevoked", attestation_id>> >>]

\* create_rule(origin, event_type, amount, max_per_epoch, club, metadata)
CreateRule(origin, event_type, amount, max_per_epoch, club) ==
    /\ NextRuleId < MaxRules
    /\ LET r == create_rule_call(origin, event_type, amount, max_per_epoch, club,
                                 NextRuleId, Rules)
       IN /\ Rules' = r.rules
          /\ NextRuleId' = r.next
          /\ events' = r.events
          /\ last' = Result("create_rule", r.result)
    /\ UNCHANGED <<now, routerStore, balances, registryStore, attestStore,
                   RewardAttestations, NextRewardAttestationId, ClaimsThisEpoch, claimed,
                   badgesStore, dispatched, attempted, assigned>>

\* create_attestation(origin, subject, rule_id, expires_at, metadata)
CreateRewardAttestation(origin, subject, rule_id, expires_at) ==
    /\ LET r == reward_create_attestation_call(origin, subject, rule_id, expires_at, now,
                                               NextRewardAttestationId,
                                               RewardAttestations, Rules, Clubs)
       IN /\ RewardAttestations' = r.atts
          /\ NextRewardAttestationId' = r.next
          /\ events' = r.events
          /\ last' = Result("create_attestation", r.result)
    /\ UNCHANGED <<now, routerStore, balances, registryStore, attestStore, Rules,
                   NextRuleId, ClaimsThisEpoch, claimed, badgesStore, dispatched,
                   attempted, assigned>>

\* claim_reward(origin, attestation_id)
ClaimReward(origin, attestation_id) ==
    /\ LET r == claim_reward_call(origin, attestation_id, now, RewardAttestations, Rules,
                                  Clubs, ClaimsThisEpoch, balances)
       IN /\ RewardAttestations' = r.atts
          /\ ClaimsThisEpoch' = r.counters
          /\ balances' = r.bal
          /\ events' = r.events
          /\ last' = Result("claim_reward", r.result)
          /\ claimed' = IF r.result = "Ok" THEN Append(claimed, r.paid[1]) ELSE claimed
    /\ UNCHANGED <<now, routerStore, registryStore, attestStore, Rules, NextRuleId,
                   NextRewardAttestationId, badgesStore, dispatched, attempted, assigned>>

\* revoke_attestation(origin, attestation_id)
RevokeRewardAttestation(origin, attestation_id) ==
    /\ LET r == reward_revoke_attestation_call(origin, attestation_id,
                                               RewardAttestations, Rules, Clubs)
       IN /\ RewardAttestations' = r.atts
          /\ events' = r.events
          /\ last' = Result("revoke_attestation", r.result)
    /\ UNCHANGED <<now, routerStore, balances, registryStore, attestStore, Rules,
                   NextRuleId, NextRewardAttestationId, ClaimsThisEpoch, claimed,
                   badgesStore, dispatched, attempted, assigned>>

-----------------------------------------------------------------------------
(* pallet-badges: classes, instances, transfers and revocations.  The 32-byte
   hashes of classes and instances are payload and are left out. *)

\* ClassCreationOrigin: create_class is called with Root
ensure_class_creation(origin) == origin.kind = "Root"

\* NextInstanceId::get under ValueQuery
next_instance_id(nextInst, class) == IF class \in DOMAIN nextInst THEN nextInst[class] ELSE 0

\* genesis_build: the configured classes are inserted one after the other
RECURSIVE genesis_build(_, _, _)
genesis_build(config, classes, nextClass) ==
    IF config = <<>> THEN [classes |-> classes, next |-> nextClass]
    ELSE LET class_id == Head(config)[1]
             info == Head(config)[2]
         IN genesis_build(Tail(config), put(classes, class_id, Some(info)),
                          IF class_id >= nextClass
                          THEN saturating_add(class_id, 1, ClassIdMax)
                          ELSE nextClass)

\* create_class as a function of the state it reads
create_class_call(origin, club, default_transferable, default_soulbound, nextClass, classes) ==
    LET stop(err) == [result |-> err, next |-> nextClass, classes |-> classes,
                      events |-> <<>>]
    IN
    IF ~ensure_class_creation(origin) THEN stop("BadOrigin")
    ELSE IF ~ensure_signed(origin) THEN stop("BadOrigin")
    ELSE IF ~(nextClass < MaxClasses) THEN stop("ClassLimitReached")
    ELSE [result |-> "Ok",
          next |-> saturating_add(nextClass, 1, ClassIdMax),
          classes |-> put(classes, nextClass,
                          Some([creator |-> origin.who, club |-> club,
                                default_transferable |-> default_transferable,
                                default_soulbound |-> default_soulbound,
                                instances_count |-> 0])),
          events |-> << <<"ClassCreated", nextClass, origin.who, club>> >>]

\* issue_badge, lines 221-235: who may issue
issuer_allowed(class_info, issuer) ==
    IF is_some(class_info.club)
    THEN IF issuer = class_info.creator THEN TRUE ELSE FALSE
    ELSE issuer = class_info.creator

\* issue_badge, lines 262-272: the index takes the id while it has room
class_index_push(index, class, inst) ==
    LET list == IF class \in DOMAIN index THEN index[class] ELSE <<>>
    IN put(index, class,
           Some(IF Len(list) < ClassInstancesCap THEN Append(list, inst) ELSE list))

\* issue_badge as a function of the state it reads
issue_badge_call(origin, class, to, transferable, soulbound, h, classes, nextInst, instances, index) ==
    LET stop(err) == [result |-> err, classes |-> classes, nextInst |-> nextInst,
                      instances |-> instances, index |-> index, issued |-> None,
                      events |-> <<>>]
    IN
    IF ~ensure_signed(origin) THEN stop("BadOrigin")
    ELSE IF ~is_some(get(classes, class)) THEN stop("ClassNotFound")
    ELSE
      LET issuer == origin.who
          class_info == classes[class]
          next_inst == next_instance_id(nextInst, class)
      IN
      IF ~issuer_allowed(class_info, issuer) THEN stop("NotIssuer")
      ELSE IF ~(next_inst < MaxInstancesPerClass) THEN stop("InstancesLimitReached")
      ELSE
        LET instance == [owner |-> to, issued_at |-> now_millis(h), issuer |-> issuer,
                         transferable |->
                             unwrap_or(transferable, class_info.default_transferable),
                         soulbound |-> unwrap_or(soulbound, class_info.default_soulbound)]
        IN [result |-> "Ok",
            classes |-> put(classes, class,
                            Some([class_info EXCEPT !.instances_count =
                                      saturating_add(@, 1, VotesMax)])),
            nextInst |-> put(nextInst, class,
                             Some(saturating_add(next_inst, 1, InstanceIdMax))),
            instances |-> put(instances, <<class, next_inst>>, Some(instance)),
            index |-> class_index_push(index, class, next_inst),
            issued |-> Some([class |-> class, instance |-> next_inst, to |-> to,
                             transferable |-> instance.transferable,
                             soulbound |-> instance.soulbound]),
            events |-> << <<"BadgeIssued", class, next_inst, to>> >>]

\* revoke_badge, lines 293-306: who may revoke
revoker_allowed(class_info, who) ==
    IF is_some(class_info.club)
    THEN IF who = class_info.creator THEN TRUE ELSE FALSE
    ELSE who = class_info.creator

\* revoke_badge as a function of the state it reads
revoke_badge_call(origin, class, instance, classes, instances) ==
    LET stop(err) == [result |-> err, instances |-> instances, events |-> <<>>] IN
    IF ~ensure_signed(origin) THEN stop("BadOrigin")
    ELSE IF ~is_some(get(classes, class)) THEN stop("ClassNotFound")
    ELSE IF ~revoker_allowed(classes[class], origin.who) THEN stop("NotClassOwner")
    ELSE IF ~is_some(get(instances, <<class, instance>>)) THEN stop("InstanceNotFound")
    ELSE [result |-> "Ok",
          instances |-> put(instances, <<class, instance>>, None),
          events |-> << <<"BadgeRevoked", class, instance>> >>]

\* transfer_badge, lines 332-334: the three ensure! in their order
transfer_refusal_owner_only(inst, who) ==
    IF inst.owner # who THEN "NotOwner" ELSE "Ok"
transfer_refusal(inst, who) ==
    IF inst.owner # who THEN "NotOwner"
    ELSE IF inst.soulbound THEN "Soulbound"
    ELSE IF ~inst.transferable THEN "NotTransferable"
    ELSE "Ok"

\* transfer_badge as a function of the state it reads
transfer_badge_call(origin, class, instance, to, instances) ==
    LET stop(err) == [result |-> err, instances |-> instances, events |-> <<>>] IN
    IF ~ensure_signed(origin) THEN stop("BadOrigin")
    ELSE IF ~is_some(get(instances, <<class, instance>>)) THEN stop("InstanceNotFound")
    ELSE
      LET who == origin.who
          inst == instances[<<class, instance>>]
          refusal == transfer_refusal(inst, who)
      IN IF refusal # "Ok" THEN stop(refusal)
         ELSE [result |-> "Ok",
               instances |-> put(instances, <<class, instance>>,
                                 Some([inst EXCEPT !.owner = to])),
               events |-> << <<"BadgeTransferred", class, instance, inst.owner, to>> >>]

\* create_class(origin, metadata_hash, club, default_transferable, default_soulbound)
CreateClass(origin, club, default_transferable, default_soulbound) ==
    /\ LET r == create_class_call(origin, club, default_transferable, default_soulbound,
                                  NextClassId, Classes)
       IN /\ Classes' = r.classes
          /\ NextClassId' = r.next
          /\ events' = r.events
          /\ last' = Result("create_class", r.result)
    /\ UNCHANGED <<now, routerStore, balances, registryStore, attestStore, rewardsStore,
                   NextInstanceId, BadgeInstances, ClassInstances, issued, dispatched,
                   attempted, assigned>>

\* issue_badge(origin, class, to, uri_hash, transferable, soulbound)
IssueBadge(origin, class, to, transferable, soulbound) ==
    /\ LET r == issue_badge_call(origin, class, to, transferable, soulbound, now, Classes,
                                 NextInstanceId, BadgeInstances, ClassInstances)
       IN /\ Classes' = r.classes
          /\ NextInstanceId' = r.nextInst
          /\ BadgeInstances' = r.instances
          /\ ClassInstances' = r.index
          /\ events' = r.events
          /\ last' = Result("issue_badge", r.result)
          /\ issued' = IF r.result = "Ok"
                       THEN put(issued, <<r.issued[1].class, r.issued[1].instance>>,
                                Some(r.issued[1]))
                       ELSE issued
    /\ UNCHANGED <<now, routerStore, balances, registryStore, attestStore, rewardsStore,
                   NextClassId, dispatched, attempted, assigned>>

\* revoke_badge(origin, class, instance)
RevokeBadge(origin, class, instance) ==
    /\ LET r == revoke_badge_call(origin, class, instance, Classes, BadgeInstances)
       IN /\ BadgeInstances' = r.instances
          /\ events' = r.events
          /\ last' = Result("revoke_badge", r.result)
    /\ UNCHANGED <<now, routerStore, balances, registryStore, attestStore, rewardsStore,
                   NextClassId, NextInstanceId, Classes, ClassInstances, issued,
                   dispatched, attempted, assigned>>

\* transfer_badge(origin, class, instance, to)
TransferBadge(origin, class, instance, to) ==
    /\ LET r == transfer_badge_call(origin, class, instance, to, BadgeInstances)
       IN /\ BadgeInstances' = r.instances
          /\ events' = r.events
          /\ last' = Result("transfer_badge", r.result)
    /\ UNCHANGED <<now, routerStore, balances, registryStore, attestStore, rewardsStore,
                   NextClassId, NextInstanceId, Classes, ClassInstances, issued,
                   dispatched, attempted, assigned>>

-----------------------------------------------------------------------------
(* Genesis: empty storage, block 1, the pallet account funded *)

Init ==
    /\ now = 1
    /\ NextProposalId = 0
    /\ Proposals = <<>>
    /\ ClubProposals = <<>>
    /\ balances = [a \in LedgerAccounts |->
                      IF a = pallet_account THEN InitialPalletBalance ELSE 0]
    /\ Clubs = <<>>
    /\ Members = <<>>
    /\ NextClubId = 0
    /\ AttestationsGenesis
    /\ RewardsGenesis
    /\ BadgesGenesis
    /\ events = <<>>
    /\ last = Result("genesis", "Ok")
    /\ dispatched = [i \in ProposalIds |-> <<>>]
    /\ attempted = {}
    /\ assigned = {}

Next ==
    \/ \E o \in Origins, req \in ProposeRequests : Propose(o, req)
    \/ \E o \in Origins, id \in ProposalIds, aye \in BOOLEAN : Vote(o, id, aye)
    \/ \E o \in Origins, id \in ProposalIds : Execute(o, id)
    \/ \E o \in Origins, id \in ProposalIds : Cancel(o, id)
    \/ AdvanceBlock

Spec == Init /\ [][Next]_vars

-----------------------------------------------------------------------------
(* The router next to the registry: clubs are created, members join, and the
   router is asked by members and by accounts that are no members *)

EligibilityRequests ==
    { Request(Global, CallTransfer, None, Some(1), None, None),
      Request(Club(0), CallTransfer, None, Some(1), None, None) }

ClubAdmins == {1}
Joiners == Accounts \ ClubAdmins

NextEligibility ==
    \/ \E o \in Origins, admin \in ClubAdmins : CreateClub(o, admin)
    \/ \E o \in SignedOrigins, a \in Joiners, c \in ClubIds : AddMemberAdmin(o, a, c)
    \/ \E o \in SignedOrigins, a \in Joiners, c \in ClubIds : RemoveMemberAdmin(o, a, c)
    \/ \E a \in Joiners, req \in EligibilityRequests : Propose(Signed(a), req)
    \/ \E a \in Joiners, id \in ProposalIds : Vote(Signed(a), id, TRUE)
    \/ AdvanceBlock

SpecEligibility == Init /\ [][NextEligibility]_vars

-----------------------------------------------------------------------------
(* The registry on its own: the admin of a club names an officer, attestations
   are created, used and revoked *)

RegistryAttestationIds == 0..MaxRegistryAttestations
RegistryAdmins == {1}
RegistryOfficers == {2}
RegistrySubjects == {3}
RegistryClubs == {0}
\* no expiry, or an expiry at the timestamp of block 2
RegistryExpiries == {None, Some(2 * MillisPerBlock)}

NextRegistry ==
    \/ \E admin \in RegistryAdmins : CreateClub(Root, admin) /\ NextClubId \in RegistryClubs
    \/ \E a \in RegistryAdmins, c \in RegistryClubs, o \in RegistryOfficers :
          /\ c \in DOMAIN Clubs => Len(Clubs[c].officers) < MaxOfficers
          /\ AddOfficer(Signed(a), c, o)
    \/ \E a \in RegistryAdmins, c \in RegistryClubs, o \in RegistryOfficers :
          RemoveOfficer(Signed(a), c, o)
    \/ \E a \in Accounts, subject \in RegistrySubjects, c \in RegistryClubs,
          exp \in RegistryExpiries : CreateAttestation(Signed(a), subject, c, exp)
    \/ \E a \in Accounts, id \in RegistryAttestationIds : RegisterMember(Signed(a), id)
    \/ \E a \in Accounts, id \in RegistryAttestationIds : RevokeAttestation(Signed(a), id)
    \/ AdvanceBlock

SpecRegistry == Init /\ [][NextRegistry]_vars

-----------------------------------------------------------------------------
(* Rewards: a rule of club 0 that pays once per epoch, attestations by the
   admin of the club for one subject, claims, revocations, epochs passing *)

RewardAttestationIds == 0..MaxAttestations
RewardAttestors == {1}
RewardSubjects == {3}
RewardClaimants == {2, 3}
\* b"attendance"
EventType == <<97, 116, 116, 101, 110, 100, 97, 110, 99, 101>>
\* amount, max_per_epoch
RuleRequests == { <<1, 1>> }

NextRewards ==
    \/ \E admin \in RewardAttestors : CreateClub(Root, admin) /\ NextClubId = 0
    \/ \E rq \in RuleRequests : CreateRule(Root, EventType, rq[1], rq[2], Some(0))
    \/ \E a \in RewardAttestors \cup RewardSubjects, subject \in RewardSubjects,
          exp \in RegistryExpiries :
          CreateRewardAttestation(Signed(a), subject, 0, exp)
    \/ \E a \in RewardClaimants, id \in RewardAttestationIds : ClaimReward(Signed(a), id)
    \/ \E a \in RewardAttestors \cup RewardSubjects, id \in RewardAttestationIds :
          RevokeRewardAttestation(Signed(a), id)
    \/ AdvanceBlock

SpecRewards == Init /\ [][NextRewards]_vars

-----------------------------------------------------------------------------
(* Badges: two classes configured at genesis by account 1, a global one and
   one scoped to club 0; club 0 gets admin 2 and officer 3; badges are issued,
   transferred and revoked *)

BadgeCreators == {1}
BadgeClubAdmins == {2}
BadgeClubOfficers == {3}
BadgeClasses == 0..1
BadgeInstanceIds == 0..MaxInstancesPerClass
\* transferable, soulbound as issue_badge is given them
BadgeFlags == { <<None, None>>, <<Some(TRUE), Some(FALSE)>>, <<Some(TRUE), Some(TRUE)>> }
GenesisClasses ==
    << <<0, [creator |-> 1, club |-> None, default_transferable |-> FALSE,
             default_soulbound |-> TRUE, instances_count |-> 0]>>,
       <<1, [creator |-> 1, club |-> Some(0), default_transferable |-> FALSE,
             default_soulbound |-> FALSE, instances_count |-> 0]>> >>

InitBadges ==
    /\ now = 1
    /\ NextProposalId = 0
    /\ Proposals = <<>>
    /\ ClubProposals = <<>>
    /\ balances = [a \in LedgerAccounts |->
                      IF a = pallet_account THEN InitialPalletBalance ELSE 0]
    /\ Clubs = <<>>
    /\ Members = <<>>
    /\ NextClubId = 0
    /\ AttestationsGenesis
    /\ RewardsGenesis
    /\ LET built == genesis_build(GenesisClasses, <<>>, 0)
       IN /\ Classes = built.classes
          /\ NextClassId = built.next
    /\ NextInstanceId = <<>>
    /\ BadgeInstances = <<>>
    /\ ClassInstances = <<>>
    /\ issued = <<>>
    /\ events = <<>>
    /\ last = Result("genesis", "Ok")
    /\ dispatched = [i \in ProposalIds |-> <<>>]
    /\ attempted = {}
    /\ assigned = {}

NextBadges ==
    \/ \E admin \in BadgeClubAdmins : CreateClub(Root, admin) /\ NextClubId = 0
    \/ \E a \in BadgeClubAdmins, o \in BadgeClubOfficers :
          /\ 0 \in DOMAIN Clubs => Len(Clubs[0].officers) < MaxOfficers
          /\ AddOfficer(Signed(a), 0, o)
    \/ \E o \in {Root} \cup {Signed(a) : a \in BadgeCreators} :
          CreateClass(o, Some(0), FALSE, FALSE)
    \/ \E a \in Accounts, c \in BadgeClasses, to \in Accounts \ BadgeCreators,
          f \in BadgeFlags :
          IssueBadge(Signed(a), c, to, f[1], f[2])
    \/ \E a \in Accounts, c \in BadgeClasses, i \in BadgeInstanceIds, to \in Accounts :
          TransferBadge(Signed(a), c, i, to)
    \/ \E a \in Accounts, c \in BadgeClasses, i \in BadgeInstanceIds :
          RevokeBadge(Signed(a), c, i)

SpecBadges == InitBadges /\ [][NextBadges]_vars

-----------------------------------------------------------------------------
(* Execution of a voted proposal: the chain is at the last block of the
   voting window of proposal 0, which holds yea ayes and nay noes of a runtime
   whose MaxVotersPerProposal admits them (1024 in the mock runtime) *)

TallyQuorums == {0, 1, 3, 2 * TallyMax + 1}
TallyThresholds == {0, 3333, 3334, 4000, 5000, 5001, 10000, 10001}

voted_proposal(yea, nay, quorum, pass_threshold) ==
    [new_proposal(0, 1, Request(Global, CallTransfer, None, Some(1), Some(quorum),
                                Some(pass_threshold)), 1)
        EXCEPT !.yea = yea, !.nay = nay, !.voters = [i \in 1..(yea + nay) |-> i]]

InitTally ==
    /\ now = 2
    /\ NextProposalId = 1
    /\ \E yea \in 0..TallyMax, nay \in 0..TallyMax, q \in TallyQuorums,
          pt \in TallyThresholds :
            Proposals = (0 :> voted_proposal(yea, nay, q, pt))
    /\ ClubProposals = <<>>
    /\ balances = [a \in LedgerAccounts |->
                      IF a = pallet_account THEN InitialPalletBalance ELSE 0]
    /\ Clubs = <<>>
    /\ Members = <<>>
    /\ NextClubId = 0
    /\ AttestationsGenesis
    /\ RewardsGenesis
    /\ BadgesGenesis
    /\ events = <<>>
    /\ last = Result("vote", "Ok")
    /\ dispatched = [i \in ProposalIds |-> <<>>]
    /\ attempted = {}
    /\ assigned = {0}

NextTally ==
    \/ \E a \in Accounts : Execute(Signed(a), 0)
    \/ AdvanceBlock

SpecTally == InitTally /\ [][NextTally]_vars

-----------------------------------------------------------------------------
(* Two proposals side by side, one voter: what a request on one proposal does
   to the other *)

\* a transfer followed by bytes that RuntimeCall::decode does not read
CallOversized ==
    [i \in 1..(MaxActionLen + 1) |-> IF i <= Len(CallTransfer) THEN CallTransfer[i] ELSE 0]

PairIds == 0..PairProposals

PairRequests ==
    { Request(Global, CallTransfer, Some(MetadataFull), Some(1), None, None),
      Request(Club(0), CallOversized, None, Some(0), Some(0), Some(0)),
      Request(Club(1), CallTransfer, None, None, Some(0), Some(10001)),
      Request(Global, CallTransfer, Some(MetadataOver), Some(1), None, None) }

InitPair ==
    /\ now = 1
    /\ NextProposalId = 0
    /\ Proposals = <<>>
    /\ ClubProposals = <<>>
    /\ balances = [a \in LedgerAccounts |->
                      IF a = pallet_account THEN InitialPalletBalance ELSE 0]
    /\ Clubs = <<>>
    /\ Members = <<>>
    /\ NextClubId = 0
    /\ AttestationsGenesis
    /\ RewardsGenesis
    /\ BadgesGenesis
    /\ events = <<>>
    /\ last = Result("genesis", "Ok")
    /\ dispatched = [i \in PairIds |-> <<>>]
    /\ attempted = {}
    /\ assigned = {}

NextPair ==
    \/ \E req \in PairRequests : ProposeWhile(Signed(2), req, 0..(PairProposals - 1))
    \/ \E id \in PairIds, aye \in BOOLEAN : Vote(Signed(1), id, aye)
    \/ \E id \in PairIds : Execute(Signed(3), id)
    \/ AdvanceBlock

SpecPair == InitPair /\ [][NextPair]_vars

-----------------------------------------------------------------------------
(* A chain whose id counter has come to the top of ProposalId: every id below
   ProposalIdMax - 1 was handed out before, and the proposals are gone *)

TopIds == {ProposalIdMax - 1, ProposalIdMax}

TopRequests ==
    { Request(Global, CallTransfer, None, Some(1), None, None),
      Request(Global, CallOverdraw, None, Some(0), Some(0), Some(0)) }

InitIdTop ==
    /\ now = 1
    /\ NextProposalId = ProposalIdMax - 1
    /\ Proposals = <<>>
    /\ ClubProposals = <<>>
    /\ balances = [a \in LedgerAccounts |->
                      IF a = pallet_account THEN InitialPalletBalance ELSE 0]
    /\ Clubs = <<>>
    /\ Members = <<>>
    /\ NextClubId = 0
    /\ AttestationsGenesis
    /\ RewardsGenesis
    /\ BadgesGenesis
    /\ events = <<>>
    /\ last = Result("cancel", "Ok")
    /\ dispatched = [i \in TopIds |-> <<>>]
    /\ attempted = {}
    /\ assigned = {}

NextIdTop ==
    \/ \E o \in {Root, Signed(1)}, req \in TopRequests : ProposeWhile(o, req, TopIds)
    \/ \E id \in TopIds, aye \in BOOLEAN : Vote(Signed(1), id, aye)
    \/ \E o \in {Root, Signed(1)}, id \in TopIds : Cancel(o, id)
    \/ AdvanceBlock

SpecIdTop == InitIdTop /\ [][NextIdTop]_vars

-----------------------------------------------------------------------------
(* A chain on which club 0 has received ClubIndexCap proposals, all of them
   cancelled since: cancel leaves the ids in the index of the club *)

LateIds == ClubIndexCap..(ClubIndexCap + MaxLateProposals)

LateRequests ==
    { Request(Club(0), CallTransfer, None, Some(1), None, None),
      Request(Club(1), CallTransfer, None, Some(1), None, None),
      Request(Global, CallTransfer, Some(MetadataOver), Some(1), None, None) }

InitIndexFull ==
    /\ now = 1
    /\ NextProposalId = ClubIndexCap
    /\ Proposals = <<>>
    /\ ClubProposals = (0 :> [i \in 1..ClubIndexCap |-> i - 1])
    /\ balances = [a \in LedgerAccounts |->
                      IF a = pallet_account THEN InitialPalletBalance ELSE 0]
    /\ Clubs = <<>>
    /\ Members = <<>>
    /\ NextClubId = 0
    /\ AttestationsGenesis
    /\ RewardsGenesis
    /\ BadgesGenesis
    /\ events = <<>>
    /\ last = Result("cancel", "Ok")
    /\ dispatched = [i \in LateIds |-> <<>>]
    /\ attempted = {}
    /\ assigned = 0..(ClubIndexCap - 1)

NextIndexFull ==
    \/ \E o \in Origins, req \in LateRequests :
          ProposeWhile(o, req, ClubIndexCap..(ClubIndexCap + MaxLateProposals - 1))
    \/ \E o \in Origins, id \in LateIds, aye \in BOOLEAN : Vote(o, id, aye)
    \/ \E o \in Origins, id \in LateIds : Cancel(o, id)
    \/ AdvanceBlock

SpecIndexFull == InitIndexFull /\ [][NextIndexFull]_vars

-----------------------------------------------------------------------------
(* Properties *)

\* The eligibility rule the router is documented to enforce (the checks of
\* propose and vote that the source carries as comments): a club proposal is
\* for members of that club, a global one for any registered member
eligible(members, who, scope) ==
    /\ is_member(members, who)
    /\ scope.tag = "Club" => contains(member_clubs(members, who)[1], scope.club)

Voters(id) == {Proposals[id].voters[i] : i \in 1..Len(Proposals[id].voters)}

\* the ledger credit that the calls recorded in dispatched account for
RECURSIVE credited(_, _)
credited(a, n) ==
    IF n < 0 THEN 0
    ELSE credited(a, n - 1)
         + (IF Len(dispatched[n]) > 0 /\ dispatched[n][1].dest = a
            THEN dispatched[n][1].value ELSE 0)

(* C1 as stated: once an account has voted on a proposal, every later vote of
   that account on it, with either value of aye, fails with AlreadyVoted and
   leaves the proposal as it is. *)
C1_SecondVoteAlreadyVoted ==
    \A id \in DOMAIN Proposals : \A w \in Voters(id) : \A aye \in BOOLEAN :
        LET r == vote_call(Signed(w), id, aye, now, Proposals)
        IN r.result = "AlreadyVoted" /\ r.props = Proposals /\ r.events = <<>>

(* C1 as amended: once an account has voted on a proposal, every later vote of
   that account on it, with either value of aye, fails and leaves yea, nay and
   voters as they are; the error is AlreadyVoted while the height is inside
   [start, end] and VotingClosed once it is past end; on an id that is not
   stored (never created, or cancelled) every vote fails with
   ProposalNotFound. *)
C1_SecondVoteRejected ==
    /\ \A id \in DOMAIN Proposals : \A w \in Voters(id) : \A aye \in BOOLEAN :
          LET p == Proposals[id]
              r == vote_call(Signed(w), id, aye, now, Proposals)
          IN /\ r.result = IF now >= p.start /\ now <= p.end
                           THEN "AlreadyVoted" ELSE "VotingClosed"
             /\ r.props = Proposals
             /\ r.events = <<>>
    /\ \A id \in ProposalIds \ DOMAIN Proposals : \A w \in Accounts : \A aye \in BOOLEAN :
          LET r == vote_call(Signed(w), id, aye, now, Proposals)
          IN r.result = "ProposalNotFound" /\ r.props = Proposals /\ r.events = <<>>

\* a second vote of a voter has just been rejected with AlreadyVoted
C1_Witness ==
    /\ last = Result("vote", "AlreadyVoted")
    /\ \E id \in DOMAIN Proposals : Len(Proposals[id].voters) >= 1

(* C2: once execute has reached the dispatch step for a proposal, with the
   dispatch succeeding or failing, every later execute on that proposal fails
   with ProposalAlreadyExecuted and dispatches nothing. *)
C2_ExecutionTerminal ==
    \A id \in attempted \cap DOMAIN Proposals : \A a \in Accounts :
        LET r == execute_call(Signed(a), id, now, Proposals, balances)
        IN r.result = "ProposalAlreadyExecuted" /\ ~r.tried

(* C3: when execute passes the window, quorum, threshold and decode checks and
   the dispatched call fails, the stored proposal ends with executed = true and
   a ProposalFailed event for it is recorded. *)
C3_FailedDispatchIsTerminal ==
    last = Result("execute", "ExecutionFailed") =>
        \E id \in attempted \cap DOMAIN Proposals :
            /\ Proposals[id].executed
            /\ events = << <<"ProposalFailed", id, "DispatchError">> >>

(* C4: over any sequence of propose, vote, execute and cancel, the call of a
   proposal id is dispatched successfully at most once, and the ledger holds
   the effect of exactly those dispatches, each applied one time. *)
C4_DispatchedAtMostOnce ==
    /\ \A id \in ProposalIds : Len(dispatched[id]) <= 1
    /\ \A a \in Accounts : balances[a] = credited(a, MaxProposals)

\* a proposal was dispatched and a further execute on it has just been refused
C4_Witness ==
    /\ last = Result("execute", "ProposalAlreadyExecuted")
    /\ \E id \in DOMAIN Proposals :
          /\ Len(dispatched[id]) = 1
          /\ balances[dispatched[id][1].dest] = dispatched[id][1].value

(* C5: proposing is gated by eligibility: a proposal that propose has just
   stored has a proposer who is a member of the proposal's club (Club scope)
   or a registered member (Global scope). *)
C5_ProposerEligible ==
    last = Result("propose", "Ok") =>
        \A id \in DOMAIN Proposals :
            eligible(Members, Proposals[id].proposer, Proposals[id].scope)

(* C6: eligibility is checked at vote time: every account recorded in voters
   is a member of the proposal's club (Club scope) or a registered member
   (Global scope); the registry never drops a member record, so an account
   eligible when it voted is eligible in every later state. *)
C6_VotersEligible ==
    \A id \in DOMAIN Proposals : \A w \in Voters(id) :
        eligible(Members, w, Proposals[id].scope)

(* C7: execute by a signed caller on a stored, not yet executed proposal at a
   height <= end fails with VotingClosed, dispatches nothing and changes
   neither the proposals, the ledger nor the events, whatever the tally. *)
C7_NoExecuteBeforeWindowEnds ==
    \A id \in DOMAIN Proposals : \A a \in Accounts : \A h \in Heights :
        LET p == Proposals[id]
            r == execute_call(Signed(a), id, h, Proposals, balances)
        IN (~p.executed /\ h <= p.end) =>
              /\ r.result = "VotingClosed"
              /\ ~r.tried
              /\ r.props = Proposals
              /\ r.bal = balances
              /\ r.events = <<>>

\* an execute was refused inside the window of a proposal that already meets
\* quorum and threshold
C7_Witness ==
    /\ last = Result("execute", "VotingClosed")
    /\ \E id \in DOMAIN Proposals :
          LET p == Proposals[id]
          IN /\ ~p.executed /\ now <= p.end
             /\ p.yea >= 1 /\ p.quorum >= 1
             /\ quorum_reached(p)
             /\ pass_percent_x100(p) >= p.pass_threshold

(* C8 as stated: a vote on a stored proposal at a height below start or above
   end fails with VotingClosed, and a vote at exactly start or exactly end by
   an account that has not voted yet succeeds. *)
C8_WindowInclusiveAlways ==
    \A id \in DOMAIN Proposals : \A a \in Accounts : \A aye \in BOOLEAN :
      \A h \in Heights :
        LET p == Proposals[id]
            r == vote_call(Signed(a), id, aye, h, Proposals)
        IN /\ (h < p.start \/ h > p.end) => r.result = "VotingClosed"
           /\ ((h = p.start \/ h = p.end) /\ a \notin Voters(id)) => r.result = "Ok"

(* C8 as amended: a vote on a stored proposal at a height below start or above
   end fails with VotingClosed, and a vote at exactly start or exactly end by
   an account that has not voted yet succeeds provided voters holds fewer than
   MaxVotersPerProposal accounts. *)
C8_WindowInclusive ==
    \A id \in DOMAIN Proposals : \A a \in Accounts : \A aye \in BOOLEAN :
      \A h \in Heights :
        LET p == Proposals[id]
            r == vote_call(Signed(a), id, aye, h, Proposals)
        IN /\ (h < p.start \/ h > p.end) => r.result = "VotingClosed"
           /\ ((h = p.start \/ h = p.end) /\ a \notin Voters(id)
                 /\ Len(p.voters) < MaxVotersPerProposal) => r.result = "Ok"

\* a vote has just been accepted at exactly the last height of a window that
\* is longer than one block
C8_Witness ==
    /\ last = Result("vote", "Ok")
    /\ \E id \in DOMAIN Proposals :
          LET p == Proposals[id]
          IN now = p.end /\ p.start < p.end /\ Len(p.voters) >= 1

(* C9: in every reachable state every stored proposal has
   yea + nay = number of accounts in voters. *)
C9_TallyMatchesVoters ==
    \A id \in DOMAIN Proposals :
        Proposals[id].yea + Proposals[id].nay = Len(Proposals[id].voters)

\* a proposal holds both a yea and a nay, and a further vote has just been
\* turned away for lack of room
C9_Witness ==
    /\ last = Result("vote", "VotersOverflow")
    /\ \E id \in DOMAIN Proposals : Proposals[id].yea >= 1 /\ Proposals[id].nay >= 1

(* C10: in every reachable state the voters list of every stored proposal
   holds no account twice and at most MaxVotersPerProposal accounts. *)
C10_VotersUniqueAndBounded ==
    \A id \in DOMAIN Proposals :
        LET v == Proposals[id].voters
        IN /\ Len(v) <= MaxVotersPerProposal
           /\ \A i, j \in 1..Len(v) : v[i] = v[j] => i = j

\* the voters list is full and a voter in it has just tried to vote again
C10_Witness ==
    /\ last = Result("vote", "AlreadyVoted")
    /\ \E id \in DOMAIN Proposals : Len(Proposals[id].voters) = MaxVotersPerProposal

(* C11: the executed flag of a proposal is false when the proposal is created
   and, once true, is true in every later state in which the proposal is
   still stored. *)
C11_ExecutedMonotone ==
    [][\A id \in DOMAIN Proposals' :
          IF id \in DOMAIN Proposals
          THEN Proposals[id].executed => Proposals'[id].executed
          ELSE ~Proposals'[id].executed]_vars

\* a vote has just been turned away from a proposal that is executed
C11_Witness ==
    /\ last = Result("vote", "VotingClosed")
    /\ \E id \in DOMAIN Proposals : Proposals[id].executed /\ Len(dispatched[id]) = 1

(* C12: cancellation and execution exclude each other: a proposal whose call
   was dispatched by execute is never cancelled afterwards. *)
C12_CancelExecuteExclusive ==
    \A id \in ProposalIds :
        ~(Len(dispatched[id]) >= 1 /\ events = << <<"ProposalCancelled", id>> >>)

(* C13: a successful cancel removes the record; the id is never handed out
   again; and on an id that is not stored (cancelled or never created) every
   vote and execute by a signed caller and every cancel by the admin origin
   fails with ProposalNotFound at any height, changing nothing. *)
C13_CancelledIsGone ==
    /\ \A id \in ProposalIds :
          events = << <<"ProposalCancelled", id>> >> => id \notin DOMAIN Proposals
    /\ \A id \in assigned \ DOMAIN Proposals : id < NextProposalId
    /\ \A id \in ProposalIds \ DOMAIN Proposals : \A a \in Accounts : \A h \in Heights :
          LET e == execute_call(Signed(a), id, h, Proposals, balances)
              c == cancel_call(Root, id, Proposals)
          IN /\ \A aye \in BOOLEAN :
                  LET v == vote_call(Signed(a), id, aye, h, Proposals)
                  IN v.result = "ProposalNotFound" /\ v.props = Proposals
                     /\ v.events = <<>>
             /\ e.result = "ProposalNotFound" /\ ~e.tried /\ e.props = Proposals
             /\ e.bal = balances /\ e.events = <<>>
             /\ c.result = "ProposalNotFound" /\ c.props = Proposals /\ c.events = <<>>

\* a proposal was cancelled, and an execute after the end of its window has
\* just found nothing
C13_Witness ==
    /\ last = Result("execute", "ProposalNotFound")
    /\ assigned \ DOMAIN Proposals # {}
    /\ now > 1

(* C14: a cancel from an origin other than the admin origin fails with
   NotAuthorized and leaves the proposals, the club index and the events
   as they are. *)
C14_CancelNotAuthorized ==
    \A id \in DOMAIN Proposals : \A a \in Accounts :
        LET r == cancel_call(Signed(a), id, Proposals)
        IN r.result = "NotAuthorized" /\ r.props = Proposals /\ r.events = <<>>

(* C15: execute by a signed caller after the window on a proposal that is not
   executed fails with QuorumNotReached exactly when yea + nay < quorum,
   whatever the split between yea and nay. *)
C15_QuorumCheck ==
    \A id \in DOMAIN Proposals : \A a \in Accounts : \A h \in Heights :
        LET p == Proposals[id]
            r == execute_call(Signed(a), id, h, Proposals, balances)
        IN (~p.executed /\ h > p.end) =>
              /\ (r.result = "QuorumNotReached") <=> (p.yea + p.nay < p.quorum)
              /\ r.result = "QuorumNotReached" =>
                    ~r.tried /\ r.props = Proposals /\ r.bal = balances

\* quorum 3: an execute has just failed on two votes
C15_Witness ==
    /\ last = Result("execute", "QuorumNotReached")
    /\ \E id \in DOMAIN Proposals :
          LET p == Proposals[id]
          IN p.quorum = 3 /\ p.yea + p.nay = 2 /\ now > p.end

(* C16: with quorum met, execute by a signed caller after the window on a
   proposal that is not executed fails with ProposalNotPassed exactly when
   floor(yea * 10000 / (yea + nay)), taken as 0 when there are no votes, is
   below pass_threshold. *)
C16_ThresholdCheck ==
    \A id \in DOMAIN Proposals : \A a \in Accounts : \A h \in Heights :
        LET p == Proposals[id]
            r == execute_call(Signed(a), id, h, Proposals, balances)
            total == p.yea + p.nay
            pass_percent == IF total = 0 THEN 0 ELSE (p.yea * 10000) \div total
        IN (~p.executed /\ h > p.end /\ total >= p.quorum) =>
              /\ (r.result = "ProposalNotPassed") <=> (pass_percent < p.pass_threshold)
              /\ r.result = "ProposalNotPassed" =>
                    ~r.tried /\ r.props = Proposals /\ r.bal = balances

\* threshold 5000: an execute has just failed on yea = 4, nay = 6, and the
\* same threshold lets yea = 5, nay = 5 through
C16_Witness ==
    /\ last = Result("execute", "ProposalNotPassed")
    /\ \E id \in DOMAIN Proposals :
          LET p == Proposals[id]
          IN /\ p.pass_threshold = 5000 /\ p.yea = 4 /\ p.nay = 6 /\ p.quorum = 3
             /\ pass_percent_x100(p) = 4000
             /\ pass_percent_x100([p EXCEPT !.yea = 5, !.nay = 5]) = 5000
             /\ execute_call(Signed(1), id, now, (id :> [p EXCEPT !.yea = 5, !.nay = 5]),
                             balances).result = "Ok"

(* C17: every stored proposal has end > start, whatever voting_period was
   supplied or defaulted. *)
C17_EndAfterStart ==
    \A id \in DOMAIN Proposals : Proposals[id].end > Proposals[id].start

(* C18: ids are handed out in strictly increasing order and never twice: the
   id a successful propose assigns is greater than every id assigned before,
   and the counter never decreases. *)
C18_IdsNeverReused ==
    /\ \A id \in assigned : id <= NextProposalId
    /\ \A a \in Accounts : \A req \in TopRequests :
          LET r == propose_call(Signed(a), req, now, NextProposalId, Proposals,
                                ClubProposals)
          IN r.result = "Ok" => \A id \in assigned : NextProposalId > id

(* C19: while the index of club c holds ClubIndexCap ids, every propose with
   scope Club(c) that passes the origin and metadata checks fails with
   ClubIndexOverflow, and the failed request stores no proposal, leaves the id
   counter and the index as they are, and deposits no event. *)
C19_IndexOverflowAtomic ==
    /\ [](\A c \in DOMAIN ClubProposals : \A a \in Accounts : \A req \in LateRequests :
            (Len(ClubProposals[c]) = ClubIndexCap /\ req.scope = Club(c)
               /\ metadata_ok(req.metadata)) =>
                propose_call(Signed(a), req, now, NextProposalId, Proposals,
                             ClubProposals).result = "ClubIndexOverflow")
    /\ [][last' = Result("propose", "ClubIndexOverflow") =>
            /\ Proposals' = Proposals
            /\ NextProposalId' = NextProposalId
            /\ ClubProposals' = ClubProposals
            /\ assigned' = assigned
            /\ events' = <<>>]_vars

\* a propose for the club with the full index has just failed, and the id it
\* would have taken is neither stored nor handed out
C19_Witness ==
    /\ last = Result("propose", "ClubIndexOverflow")
    /\ Len(ClubProposals[0]) = ClubIndexCap
    /\ NextProposalId \notin DOMAIN Proposals
    /\ NextProposalId \notin assigned

(* C20: a propose, vote or cancel that returns an error leaves the id counter,
   the proposals, the club indices and the event log as they were. *)
C20_FailedRequestChangesNothing ==
    [][(last'.op \in {"propose", "vote", "cancel"} /\ last'.result # "Ok") =>
          /\ NextProposalId' = NextProposalId
          /\ Proposals' = Proposals
          /\ ClubProposals' = ClubProposals
          /\ events' = <<>>]_vars

\* a vote has just been turned away from a stored proposal whose voters list
\* is full, on the chain where the index of club 0 is full as well
C20_Witness ==
    /\ last = Result("vote", "VotersOverflow")
    /\ \E id \in DOMAIN Proposals :
          /\ Len(Proposals[id].voters) = MaxVotersPerProposal
          /\ Proposals[id].yea + Proposals[id].nay = MaxVotersPerProposal
    /\ Len(ClubProposals[0]) = ClubIndexCap

(* C21: an execute by a signed caller that fails on quorum, threshold or
   decoding leaves the proposal, the ledger and the events as they are and
   dispatches nothing, and the same execute at any later height fails the
   same way; a passed proposal whose call does not decode fails with
   InvalidCallEncoding. *)
C21_FailedChecksLeaveProposal ==
    \A id \in DOMAIN Proposals : \A a \in Accounts : \A h \in Heights :
        LET p == Proposals[id]
            r == execute_call(Signed(a), id, h, Proposals, balances)
            total == p.yea + p.nay
            percent == IF total = 0 THEN 0 ELSE (p.yea * 10000) \div total
        IN (~p.executed /\ h > p.end) =>
              /\ (total >= p.quorum /\ percent >= p.pass_threshold
                    /\ p.call = CallUndecodable) => r.result = "InvalidCallEncoding"
              /\ r.result \in {"QuorumNotReached", "ProposalNotPassed",
                               "InvalidCallEncoding"} =>
                    /\ ~r.tried
                    /\ r.props = Proposals
                    /\ r.bal = balances
                    /\ r.events = <<>>
                    /\ \A h2 \in Heights : h2 >= h =>
                          execute_call(Signed(a), id, h2, r.props, r.bal).result = r.result

\* an execute has just failed on the encoding of a proposal that was voted
\* through, and the proposal is still not executed
C21_Witness ==
    /\ last = Result("execute", "InvalidCallEncoding")
    /\ \E id \in DOMAIN Proposals :
          LET p == Proposals[id]
          IN /\ ~p.executed /\ p.call = CallUndecodable /\ p.yea >= 1
             /\ now > p.end /\ id \notin attempted

(* C22: execute by a signed caller after the window on a proposal that is not
   executed, meets quorum and threshold and holds a transfer the pallet
   account can pay returns Ok, moves exactly the transferred value to the
   recipient, sets executed on that proposal and changes nothing else in
   Proposals, and deposits exactly one ProposalExecuted event for the id. *)
C22_SuccessfulExecute ==
    \A id \in DOMAIN Proposals : \A a \in Accounts :
        LET p == Proposals[id]
            r == execute_call(Signed(a), id, now, Proposals, balances)
            total == p.yea + p.nay
            percent == IF total = 0 THEN 0 ELSE (p.yea * 10000) \div total
            is_transfer == /\ Len(p.call) >= 4
                           /\ p.call[1] = BalancesPalletIndex
                           /\ p.call[2] = TransferCallIndex
            dest == p.call[3]
            value == p.call[4]
        IN (/\ ~p.executed /\ now > p.end
            /\ total >= p.quorum /\ percent >= p.pass_threshold
            /\ is_transfer /\ dest \in Accounts
            /\ balances[pallet_account] >= value) =>
              /\ r.result = "Ok"
              /\ r.tried
              /\ r.props = [Proposals EXCEPT ![id].executed = TRUE]
              /\ r.bal = [balances EXCEPT ![dest] = @ + value,
                                          ![pallet_account] = @ - value]
              /\ r.events = << <<"ProposalExecuted", id>> >>

\* an execute has just succeeded on one of two stored proposals: the
\* recipient holds the transferred value, the other proposal is not executed
C22_Witness ==
    /\ last = Result("execute", "Ok")
    /\ \E id, other \in DOMAIN Proposals :
          /\ id # other
          /\ Proposals[id].executed /\ ~Proposals[other].executed
          /\ events = << <<"ProposalExecuted", id>> >>
          /\ Len(dispatched[id]) = 1 /\ Len(dispatched[other]) = 0
          /\ balances[dispatched[id][1].dest] = dispatched[id][1].value

(* C23: every stored proposal has a pass_threshold between 0 and 10000,
   whatever value was passed to propose. *)
C23_ThresholdInRange ==
    \A id \in DOMAIN Proposals :
        Proposals[id].pass_threshold >= 0 /\ Proposals[id].pass_threshold <= 10000

(* C24: propose refuses an action longer than MaxActionLen, so the action of
   every stored proposal has at most MaxActionLen bytes. *)
C24_ActionBounded ==
    \A id \in DOMAIN Proposals : Len(Proposals[id].call) <= MaxActionLen

(* C25: a propose by a signed caller with metadata longer than MaxMetadataLen
   fails with MetadataTooLarge and changes nothing; with metadata of exactly
   MaxMetadataLen bytes, or with none, it is accepted and the metadata is
   stored as given. *)
C25_MetadataBound ==
    \A a \in Accounts : \A req \in PairRequests :
        LET r == propose_call(Signed(a), req, now, NextProposalId, Proposals,
                              ClubProposals)
            over == is_some(req.metadata) /\ Len(req.metadata[1]) > MaxMetadataLen
        IN /\ over => /\ r.result = "MetadataTooLarge"
                      /\ r.props = Proposals
                      /\ r.next = NextProposalId
                      /\ r.index = ClubProposals
                      /\ r.events = <<>>
           /\ ~over => /\ r.result = "Ok"
                       /\ r.props[NextProposalId].metadata = req.metadata

\* a propose with oversized metadata has just been refused, next to a stored
\* proposal whose metadata has exactly MaxMetadataLen bytes
C25_Witness ==
    /\ last = Result("propose", "MetadataTooLarge")
    /\ events = <<>>
    /\ \E id \in DOMAIN Proposals :
          /\ is_some(Proposals[id].metadata)
          /\ Len(Proposals[id].metadata[1]) = MaxMetadataLen
    /\ NextProposalId \notin DOMAIN Proposals

(* C26: while the voters list of a proposal holds MaxVotersPerProposal
   accounts, a vote inside the window by a signed account that is not in the
   list fails with VotersOverflow and leaves yea, nay, voters and the events
   as they are. *)
C26_VotersOverflow ==
    \A id \in DOMAIN Proposals : \A a \in Accounts : \A aye \in BOOLEAN :
      \A h \in Heights :
        LET p == Proposals[id]
            r == vote_call(Signed(a), id, aye, h, Proposals)
        IN (/\ Len(p.voters) = MaxVotersPerProposal
            /\ a \notin Voters(id)
            /\ h >= p.start /\ h <= p.end) =>
              /\ r.result = "VotersOverflow"
              /\ r.props = Proposals
              /\ r.events = <<>>

\* inside the window, a vote has just been refused for lack of room and the
\* tally still counts exactly the accounts in the list
C26_Witness ==
    /\ last = Result("vote", "VotersOverflow")
    /\ events = <<>>
    /\ \E id \in DOMAIN Proposals :
          LET p == Proposals[id]
          IN /\ Len(p.voters) = MaxVotersPerProposal
             /\ p.yea + p.nay = MaxVotersPerProposal
             /\ now >= p.start /\ now <= p.end
             /\ Accounts \ Voters(id) # {}

(* C27: a vote by a signed caller that returns Ok adds exactly 1 to yea when
   aye and exactly 1 to nay otherwise, appends the caller to voters, changes
   no other field of the proposal and no other proposal, and deposits exactly
   one Voted event with weight 1. *)
C27_VoteEffect ==
    \A id \in DOMAIN Proposals : \A a \in Accounts : \A aye \in BOOLEAN :
        LET r == vote_call(Signed(a), id, aye, now, Proposals)
        IN r.result = "Ok" =>
              /\ r.props = [Proposals EXCEPT
                               ![id].yea = @ + (IF aye THEN 1 ELSE 0),
                               ![id].nay = @ + (IF aye THEN 0 ELSE 1),
                               ![id].voters = Append(@, a)]
              /\ r.events = << <<"Voted", id, a, aye, 1>> >>

\* a nay has just been recorded on one of two stored proposals, the other
\* holds no vote
C27_Witness ==
    /\ last = Result("vote", "Ok")
    /\ \E id, other \in DOMAIN Proposals :
          /\ id # other
          /\ events = << <<"Voted", id, 1, FALSE, 1>> >>
          /\ Proposals[id].nay = 1 /\ Proposals[id].yea = 0
          /\ Proposals[id].voters = <<1>>
          /\ Proposals[other].voters = <<>>
          /\ Proposals[other].yea = 0 /\ Proposals[other].nay = 0

(* C28: execute is open to every signed caller: from one state, any two
   signed callers get the same result and leave the same proposals, ledger
   and events, whether or not the caller proposed or voted. *)
C28_ExecutePermissionless ==
    \A id \in PairIds : \A a, b \in Accounts :
        execute_call(Signed(a), id, now, Proposals, balances)
            = execute_call(Signed(b), id, now, Proposals, balances)

\* account 3, which neither proposed nor voted, has just executed a proposal
\* of account 2 that account 1 voted on
C28_Witness ==
    /\ last = Result("execute", "Ok")
    /\ \E id \in DOMAIN Proposals :
          /\ Proposals[id].executed
          /\ events = << <<"ProposalExecuted", id>> >>
          /\ Proposals[id].proposer = 2
          /\ Proposals[id].voters = <<1>>
          /\ Proposals[id].yea = 1

(* C29: every dispatch of execute runs as the account derived from the fixed
   seed b"proposal_r", which is no signer's account: the principal is the
   same for every caller and every proposal, and a successful dispatch debits
   that account and no signer. *)
C29_FixedPrincipal ==
    LET principal == into_account_truncating(pallet_id_from_bytes(entropy))
    IN /\ principal \notin Accounts
       /\ \A id \in DOMAIN Proposals : \A a \in Accounts :
             LET r == execute_call(Signed(a), id, now, Proposals, balances)
             IN r.tried =>
                   /\ r.principal = Some(principal)
                   /\ \A s \in Accounts : r.bal[s] >= balances[s]
                   /\ r.result = "Ok" =>
                         r.bal[principal] = balances[principal] - r.call[1].value

\* a proposal that an account voted for has just been executed, and the value
\* it moved has left the pallet account
C29_Witness ==
    /\ last = Result("execute", "Ok")
    /\ \E id \in DOMAIN Proposals :
          /\ Proposals[id].executed
          /\ Len(Proposals[id].voters) >= 1
          /\ Len(dispatched[id]) = 1
          /\ balances[pallet_account] = InitialPalletBalance - dispatched[id][1].value
          /\ balances[Proposals[id].proposer] >= 0

(* C30: a propose by a signed caller that returns Ok stores, under the next
   id, a record with start = current height, end = start + voting_period,
   yea = nay = 0, no voters and executed = false, in which an omitted
   voting_period, quorum or pass_threshold is the configured default and a
   supplied one is stored as given; it appends the id to the index of the
   club exactly when the scope is Club and deposits ProposalCreated with
   is_club_scoped true exactly when the scope is Club. *)
C30_ProposeEffect ==
    \A a \in Accounts : \A req \in ProposeRequests :
        LET id == NextProposalId
            r == propose_call(Signed(a), req, now, id, Proposals, ClubProposals)
            given(o, d) == IF o = <<>> THEN d ELSE o[1]
            is_club == req.scope.tag = "Club"
            c == req.scope.club
        IN r.result = "Ok" =>
              /\ DOMAIN r.props = DOMAIN Proposals \cup {id}
              /\ \A k \in DOMAIN Proposals \ {id} : r.props[k] = Proposals[k]
              /\ r.props[id] =
                    [id |-> id, proposer |-> a, scope |-> req.scope, call |-> req.call,
                     metadata |-> req.metadata,
                     start |-> now,
                     end |-> now + given(req.voting_period, DefaultVotingPeriod),
                     yea |-> 0, nay |-> 0, executed |-> FALSE, voters |-> <<>>,
                     quorum |-> given(req.quorum, DefaultQuorum),
                     pass_threshold |-> given(req.pass_threshold, DefaultPassThreshold),
                     club |-> IF is_club THEN <<c>> ELSE <<>>]
              /\ r.next = id + 1
              /\ IF is_club
                 THEN /\ DOMAIN r.index = DOMAIN ClubProposals \cup {c}
                      /\ r.index[c] = Append(IF c \in DOMAIN ClubProposals
                                             THEN ClubProposals[c] ELSE <<>>, id)
                      /\ \A k \in DOMAIN ClubProposals \ {c} : r.index[k] = ClubProposals[k]
                 ELSE r.index = ClubProposals
              /\ r.events = << <<"ProposalCreated", id, a, is_club>> >>

\* a club proposal with a supplied period, quorum and threshold has just been
\* stored and indexed
C30_Witness ==
    /\ last = Result("propose", "Ok")
    /\ \E id \in DOMAIN Proposals :
          LET p == Proposals[id]
          IN /\ p.scope = Club(0) /\ p.club = Some(0)
             /\ ClubProposals[0] = <<id>>
             /\ p.quorum = 2 /\ p.pass_threshold = 5000
             /\ p.end = p.start + 1 /\ p.start = now
             /\ p.voters = <<>> /\ ~p.executed
             /\ events = << <<"ProposalCreated", id, p.proposer, TRUE>> >>

(* C31: the club index is append-only: in every step the list of every club
   keeps its entries in place and no club loses its list; a cancel leaves the
   index as it is, so the cancelled id stays listed while it resolves to no
   proposal. *)
C31_IndexAppendOnly ==
    [][/\ \A c \in DOMAIN ClubProposals :
            /\ c \in DOMAIN ClubProposals'
            /\ Len(ClubProposals'[c]) >= Len(ClubProposals[c])
            /\ SubSeq(ClubProposals'[c], 1, Len(ClubProposals[c])) = ClubProposals[c]
       /\ last'.op = "cancel" => ClubProposals' = ClubProposals]_vars

\* a club proposal has just been cancelled: its id is still listed in the
\* index of its club and resolves to nothing
C31_Witness ==
    /\ last = Result("cancel", "Ok")
    /\ \E c \in DOMAIN ClubProposals : \E i \in 1..Len(ClubProposals[c]) :
          LET id == ClubProposals[c][i]
          IN /\ id >= ClubIndexCap
             /\ events = << <<"ProposalCancelled", id>> >>
             /\ id \notin DOMAIN Proposals

(* C32: with the height never decreasing, an execute by a signed caller that
   fails with QuorumNotReached or ProposalNotPassed fails with the same error
   after every step that keeps the proposal stored, so the proposal never
   passes later. *)
C32_FailedTallyStaysFailed ==
    [][\A id \in DOMAIN Proposals \cap DOMAIN Proposals' : \A a \in Accounts :
          LET r == execute_call(Signed(a), id, now, Proposals, balances)
              later == execute_call(Signed(a), id, now', Proposals', balances')
          IN /\ now' >= now
             /\ r.result \in {"QuorumNotReached", "ProposalNotPassed"} =>
                   later.result = r.result /\ ~later.tried]_vars

\* an execute has just failed on quorum two blocks or more after the window
\* of a proposal that holds a vote
C32_Witness ==
    /\ last = Result("execute", "QuorumNotReached")
    /\ \E id \in DOMAIN Proposals :
          LET p == Proposals[id]
          IN /\ p.yea + p.nay >= 1
             /\ p.yea + p.nay < p.quorum
             /\ now >= p.end + 2
             /\ ~p.executed /\ id \notin attempted

(* C38: a proposal without votes has pass_percent 0, computed without a
   division: an execute by a signed caller after its window fails with
   QuorumNotReached when quorum > 0, fails with ProposalNotPassed when
   quorum = 0 and pass_threshold > 0, and goes on to decode and dispatch
   exactly when quorum = 0 and pass_threshold = 0. *)
C38_NoVotes ==
    \A id \in DOMAIN Proposals : \A a \in Accounts : \A h \in Heights :
        LET p == Proposals[id]
            r == execute_call(Signed(a), id, h, Proposals, balances)
        IN (~p.executed /\ h > p.end /\ p.yea = 0 /\ p.nay = 0) =>
              /\ pass_percent_x100(p) = 0
              /\ p.quorum > 0 => r.result = "QuorumNotReached"
              /\ (p.quorum = 0 /\ p.pass_threshold > 0) =>
                    r.result = "ProposalNotPassed"
              /\ (p.quorum = 0 /\ p.pass_threshold = 0) =>
                    r.result \in {"Ok", "ExecutionFailed", "InvalidCallEncoding"}
              /\ r.tried => (p.quorum = 0 /\ p.pass_threshold = 0)

\* a proposal without votes, quorum 0 and threshold 0 has just been executed
C38_Witness ==
    /\ last = Result("execute", "Ok")
    /\ \E id \in DOMAIN Proposals :
          LET p == Proposals[id]
          IN /\ p.yea = 0 /\ p.nay = 0 /\ p.voters = <<>>
             /\ p.quorum = 0 /\ p.pass_threshold = 0
             /\ p.executed /\ Len(dispatched[id]) = 1

(* C39: with the height never decreasing, once the height is past the end of
   a proposal, or the proposal is executed, no step changes its yea, nay,
   voters or end while it is stored: execute evaluates the tally the window
   closed with, and no vote is recorded on an executed proposal. *)
C39_TallyFrozenAfterWindow ==
    [][/\ now' >= now
       /\ \A id \in DOMAIN Proposals \cap DOMAIN Proposals' :
            (now > Proposals[id].end \/ Proposals[id].executed) =>
                /\ Proposals'[id].yea = Proposals[id].yea
                /\ Proposals'[id].nay = Proposals[id].nay
                /\ Proposals'[id].voters = Proposals[id].voters
                /\ Proposals'[id].end = Proposals[id].end]_vars

\* a vote by an account that had not voted has just been turned away after
\* the window of a proposal that holds a vote and has room for more
C39_Witness ==
    /\ last = Result("vote", "VotingClosed")
    /\ \E id \in DOMAIN Proposals :
          LET p == Proposals[id]
          IN /\ now > p.end
             /\ Len(p.voters) = 1
             /\ Len(p.voters) < MaxVotersPerProposal
             /\ p.yea + p.nay = 1

(* C40: in every reachable state every stored proposal is stored under its
   own id, below the id counter; every id listed in a club index is below the
   counter, is listed once and in one club only, and, where it resolves to a
   proposal, the proposal has scope Club of that club. *)
C40_IdsAndIndexConsistent ==
    /\ \A id \in DOMAIN Proposals :
          Proposals[id].id = id /\ id < NextProposalId
    /\ \A c \in DOMAIN ClubProposals : \A i \in 1..Len(ClubProposals[c]) :
          LET id == ClubProposals[c][i]
          IN /\ id < NextProposalId
             /\ \A d \in DOMAIN ClubProposals : \A j \in 1..Len(ClubProposals[d]) :
                   ClubProposals[d][j] = id => (d = c /\ j = i)
             /\ id \in DOMAIN Proposals => Proposals[id].scope = Club(c)

\* two clubs hold one proposal each, stored and listed
C40_Witness ==
    /\ NextProposalId = 2
    /\ DOMAIN ClubProposals = {0, 1}
    /\ Len(ClubProposals[0]) = 1 /\ Len(ClubProposals[1]) = 1
    /\ ClubProposals[0][1] \in DOMAIN Proposals
    /\ ClubProposals[1][1] \in DOMAIN Proposals
    /\ ClubProposals[0][1] # ClubProposals[1][1]

(* C34 as stated: after register_member has succeeded with an attestation,
   every later register_member with it fails with AttestationUsed and leaves
   the attestations, the member records and the clubs as they are. *)
C34_UsedAttestationUsed ==
    \A id \in registered : \A a \in Accounts : \A h \in Heights :
        LET r == register_member_call(Signed(a), id, h, Attestations, Clubs, Members)
        IN /\ r.result = "AttestationUsed"
           /\ r.atts = Attestations /\ r.members = Members /\ r.clubs = Clubs
           /\ r.events = <<>>

(* C34 as amended: after register_member has succeeded with an attestation,
   every later register_member with it by a signed caller fails and leaves
   the attestations, the member records and the clubs as they are; the error
   is AttestationUsed while the attestation is stored and AttestationNotFound
   once it has been revoked. *)
C34_UsedAtMostOnce ==
    \A id \in registered : \A a \in Accounts : \A h \in Heights :
        LET r == register_member_call(Signed(a), id, h, Attestations, Clubs, Members)
        IN /\ r.result = IF id \in DOMAIN Attestations THEN "AttestationUsed"
                         ELSE "AttestationNotFound"
           /\ r.atts = Attestations /\ r.members = Members /\ r.clubs = Clubs
           /\ r.events = <<>>

\* the subject of a used attestation has just presented it again: the member
\* record and the count of the club are those of the one registration
C34_Witness ==
    /\ last = Result("register_member", "AttestationUsed")
    /\ \E id \in registered :
          /\ id \in DOMAIN Attestations
          /\ Attestations[id].used
          /\ Attestations[id].subject \in DOMAIN Members
          /\ Clubs[Attestations[id].club].members_count = 1

-----------------------------------------------------------------------------
(* C35 as stated: no attestation is paid twice; a later claim_reward by the
   claimant with an attestation that has paid fails with AttestationUsed and
   changes nothing; per account, rule and epoch the successful claims never
   exceed max_per_epoch, and the claim that would exceed it fails with
   ExceedsLimit and changes nothing *)
C35_SecondClaimAttestationUsed ==
    LET claims_in(who, rule_id, epoch) ==
            {i \in DOMAIN claimed : /\ claimed[i].who = who
                                    /\ claimed[i].rule_id = rule_id
                                    /\ claimed[i].epoch = epoch}
        call(a, id) == claim_reward_call(Signed(a), id, now, RewardAttestations, Rules,
                                         Clubs, ClaimsThisEpoch, balances)
        untouched(r) == /\ r.atts = RewardAttestations
                        /\ r.counters = ClaimsThisEpoch
                        /\ r.bal = balances
    IN
    /\ \A i, j \in DOMAIN claimed :
          claimed[i].attestation_id = claimed[j].attestation_id => i = j
    /\ \A i \in DOMAIN claimed :
          LET r == call(claimed[i].who, claimed[i].attestation_id)
          IN r.result = "AttestationUsed" /\ untouched(r)
    /\ \A i \in DOMAIN claimed :
          Cardinality(claims_in(claimed[i].who, claimed[i].rule_id, claimed[i].epoch))
              <= Rules[claimed[i].rule_id].max_per_epoch
    /\ \A a \in Accounts, id \in DOMAIN RewardAttestations :
          LET att == RewardAttestations[id]
              r == call(a, id)
          IN /\ r.result = "ExceedsLimit" => untouched(r) /\ ~att.used
             /\ ( /\ att.subject = a
                  /\ ~att.used
                  /\ is_some(att.expires_at) => now_millis(now) <= att.expires_at[1]
                  /\ att.rule_id \in DOMAIN Rules
                  /\ r.result # "NotAuthorizedAttestor"
                  /\ Cardinality(claims_in(a, att.rule_id, current_epoch(now)))
                         >= Rules[att.rule_id].max_per_epoch )
                => r.result = "ExceedsLimit"

(* C35, amended: as above, except that the later claim_reward with an
   attestation that has paid fails with AttestationUsed only for its subject
   while the record is stored, with InvalidInput for another caller, and with
   AttestationNotFound once the record has been revoked; in every case nothing
   is paid and nothing changes *)
C35_ClaimsBounded ==
    LET claims_in(who, rule_id, epoch) ==
            {i \in DOMAIN claimed : /\ claimed[i].who = who
                                    /\ claimed[i].rule_id = rule_id
                                    /\ claimed[i].epoch = epoch}
        call(a, id) == claim_reward_call(Signed(a), id, now, RewardAttestations, Rules,
                                         Clubs, ClaimsThisEpoch, balances)
        untouched(r) == /\ r.atts = RewardAttestations
                        /\ r.counters = ClaimsThisEpoch
                        /\ r.bal = balances
    IN
    /\ \A i, j \in DOMAIN claimed :
          claimed[i].attestation_id = claimed[j].attestation_id => i = j
    /\ \A i \in DOMAIN claimed, a \in Accounts :
          LET id == claimed[i].attestation_id
              r == call(a, id)
          IN /\ untouched(r)
             /\ r.result = IF id \notin DOMAIN RewardAttestations
                           THEN "AttestationNotFound"
                           ELSE IF a # claimed[i].who THEN "InvalidInput"
                           ELSE "AttestationUsed"
    /\ \A i \in DOMAIN claimed :
          Cardinality(claims_in(claimed[i].who, claimed[i].rule_id, claimed[i].epoch))
              <= Rules[claimed[i].rule_id].max_per_epoch
    /\ \A a \in Accounts, id \in DOMAIN RewardAttestations :
          LET att == RewardAttestations[id]
              r == call(a, id)
          IN /\ r.result = "ExceedsLimit" => untouched(r) /\ ~att.used
             /\ ( /\ att.subject = a
                  /\ ~att.used
                  /\ is_some(att.expires_at) => now_millis(now) <= att.expires_at[1]
                  /\ att.rule_id \in DOMAIN Rules
                  /\ r.result # "NotAuthorizedAttestor"
                  /\ Cardinality(claims_in(a, att.rule_id, current_epoch(now)))
                         >= Rules[att.rule_id].max_per_epoch )
                => r.result = "ExceedsLimit"

\* a claim was refused with ExceedsLimit in an epoch in which the account has
\* been paid, and an attestation that has paid is still stored, marked used
C35_Witness ==
    /\ last = Result("claim_reward", "ExceedsLimit")
    /\ \E i \in DOMAIN claimed :
          /\ claimed[i].epoch = current_epoch(now)
          /\ claimed[i].attestation_id \in DOMAIN RewardAttestations
          /\ RewardAttestations[claimed[i].attestation_id].used

-----------------------------------------------------------------------------
(* C36: a badge issued soulbound, or issued with transferable = false, keeps
   its flags and the owner it was issued to for as long as it is stored; every
   transfer_badge on it fails and changes nothing, with NotOwner for a caller
   who is not the owner, Soulbound for the owner of a soulbound badge and
   NotTransferable for the owner of a badge that is only not transferable; on
   any stored badge, transfer_badge by a caller who is not its owner fails
   with NotOwner *)
C36_BoundBadgesStay ==
    /\ DOMAIN BadgeInstances \subseteq DOMAIN issued
    /\ \A k \in DOMAIN BadgeInstances :
          LET inst == BadgeInstances[k]
              bound == issued[k].soulbound \/ ~issued[k].transferable
          IN /\ inst.soulbound = issued[k].soulbound
             /\ inst.transferable = issued[k].transferable
             /\ bound => inst.owner = issued[k].to
             /\ \A a \in Accounts, to \in Accounts :
                   LET r == transfer_badge_call(Signed(a), k[1], k[2], to, BadgeInstances)
                   IN /\ a # inst.owner =>
                         r.result = "NotOwner" /\ r.instances = BadgeInstances
                      /\ bound =>
                         /\ r.instances = BadgeInstances
                         /\ r.result = IF a # inst.owner THEN "NotOwner"
                                       ELSE IF inst.soulbound THEN "Soulbound"
                                       ELSE "NotTransferable"

\* the owner of a stored soulbound badge has just been refused with Soulbound,
\* while another badge has changed hands
C36_Witness ==
    /\ last = Result("transfer_badge", "Soulbound")
    /\ \E k \in DOMAIN BadgeInstances :
          BadgeInstances[k].soulbound /\ BadgeInstances[k].owner = issued[k].to
    /\ \E k \in DOMAIN BadgeInstances : BadgeInstances[k].owner # issued[k].to

(* C37: for a class scoped to an existing club, issue_badge by the class
   creator or by an officer or the admin of that club succeeds while the class
   has room for an instance, and issue_badge by any other account fails with
   NotIssuer *)
C37_ClubScopedIssuers ==
    \A c \in DOMAIN Classes, a \in Accounts, to \in Accounts :
       LET class_info == Classes[c]
           r == issue_badge_call(Signed(a), c, to, None, None, now, Classes,
                                 NextInstanceId, BadgeInstances, ClassInstances)
           member == is_officer_or_admin(Clubs, a, class_info.club[1])
           entitled == a = class_info.creator \/ (member.ok /\ member.value)
       IN (is_some(class_info.club) /\ class_info.club[1] \in DOMAIN Clubs) =>
             IF entitled
             THEN next_instance_id(NextInstanceId, c) < MaxInstancesPerClass
                     => r.result = "Ok"
             ELSE r.result = "NotIssuer"

====
